---- MODULE Spec2Model ----
(***************************************************************************)
(* A model of the arXiver scripts: the LaTeX affiliation parser dispatch   *)
(* and name matcher of finding_author_rem_11.py, its CSV fill loop, the    *)
(* producer/consumer threads and the buffered country scan of              *)
(* adding_countries.py, the worker pool and the section finder of         *)
(* extract_latex_affiliations.py, the ADS lookups of ads_affils.py and     *)
(* harvard_ads.py, the download loop of download_arxiv.py, the Gemini      *)
(* batch calls of predictions/gemini_api_t2.py and the Streamlit pages     *)
(* data_labelling.py and app.py.  Each script is an independent program,   *)
(* so each has its own initial condition and next-state relation over its  *)
(* own variables; the variables of the other scripts stay idle.            *)
(*                                                                         *)
(* Python strings that the code inspects character by character are        *)
(* sequences of one-character strings; None is the model value NoneVal.    *)
(***************************************************************************)
EXTENDS Integers, Sequences, FiniteSets, TLC

VARIABLES
    \* finding_author_rem_11.parse_latex_section
    heuristic_result,   \* what each parse_*_style(section) returns for the section
    dispatch_pc,        \* the statement parse_latex_section is at
    res,                \* its local res
    consulted,          \* the heuristics called so far, in call order
    dispatch_return,    \* the value returned
    \* finding_author_rem_11.names_match
    name1, name2,       \* the two arguments
    match_pc,           \* "call" before the call, "done" after
    match_result,       \* the value returned
    \* finding_author_rem_11.main
    csv_in,             \* the rows of CSV_PATH as read by pd.read_csv
    df,                 \* the data frame
    fill_pc,            \* "loop", "write", "report" or "done"
    loop_i,             \* position of the fill loop in missing_indices
    affiliations,       \* the local affiliations at the end of the last iteration
    changed,            \* the local changed at the end of the last iteration
    output_csv,         \* the rows of OUTPUT_CSV_PATH, NoneVal while not written
    csv_writes,         \* number of df.to_csv calls so far
    \* adding_countries: downloader_thread, processor_thread, main
    ac_df,              \* per row: latex_countries and whether pdf_link holds an arXiv id
    work_queue,         \* the queue.Queue, oldest item first
    dl_pc,              \* downloader: "iter", "sleep" or "exit"
    dl_i,               \* downloader: the row of df.iterrows() it is at
    pr_pc,              \* processor: "get", "work" or "exit"
    item,               \* processor: the item taken from the queue
    processed_count,    \* processor: its local counter
    ac_saves,           \* number of df.to_csv calls so far
    ac_main_pc,         \* main: "join" or "done"
    now,                \* seconds slept so far by the downloader
    request_times,      \* the value of now at each HTTP request, in order
    enqueued,           \* every item put on the queue, in order
    processed,          \* every work item the processor has finished, in order
    \* adding_countries.process_lines_with_buffer
    found_matches,          \* its local list
    lines_since_last_match, \* its local counter
    has_found_any,          \* its local flag
    scan_pc,                \* "scan" inside the for loop, "return" after it
    stopped_by_buffer,      \* the loop was left by the break
    lines_scanned,          \* number of lines the loop has taken
    last_match_line,        \* the number of the last line with a match, 0 if none
    match_lines,            \* number of lines with a match so far
    scanned_matches,        \* the regex matches of the lines taken, in order
    \* extract_latex_affiliations: main and process_row_worker
    ex_main_pc,         \* main: "submit", "wait", "summary", "done" or "raised"
    title_is_str,       \* per paper: row title is a string (not NaN)
    worker_pc,          \* per submitted paper: where its worker is
    is_success,         \* per worker: its local is_success
    write_lock,         \* the worker holding write_lock, 0 if it is free
    success_count,      \* global counter
    fail_count,         \* global counter
    loaded_count,       \* per worker: the counter value its += has read
    counted,            \* per worker: number of counter increments it has stored
    outfile,            \* OUTPUT_PATH as the sequence of chunks written to it
    summary_total,      \* the "Total processed" number of the summary, -1 before
    \* ads_affils: main and get_author_affiliation_ads
    ads_pc,             \* "main", "request", "sleep" or "done"
    ads_i,              \* main: the author of the loop
    ads_depth,          \* recursion depth of get_author_affiliation_ads
    ads_requests,       \* requests.get calls made for the current author
    ads_waited,         \* seconds slept after 429 answers for the current author
    ads_results         \* main: results, one entry per author handled

dispatchVars == <<heuristic_result, dispatch_pc, res, consulted, dispatch_return>>
matchVars == <<name1, name2, match_pc, match_result>>
fillVars == <<csv_in, df, fill_pc, loop_i, affiliations, changed, output_csv, csv_writes>>
countryVars == <<ac_df, work_queue, dl_pc, dl_i, pr_pc, item, processed_count, ac_saves,
                 ac_main_pc, now, request_times, enqueued, processed>>
scanVars == <<found_matches, lines_since_last_match, has_found_any, scan_pc,
              stopped_by_buffer, lines_scanned, last_match_line, match_lines, scanned_matches>>
extractVars == <<ex_main_pc, title_is_str, worker_pc, is_success, write_lock, success_count,
                 fail_count, loaded_count, counted, outfile, summary_total>>
adsVars == <<ads_pc, ads_i, ads_depth, ads_requests, ads_waited, ads_results>>

NoneVal == "None"

(***************************************************************************)
(* Generic helpers on sequences.                                           *)
(***************************************************************************)
Range(s) == {s[i] : i \in 1..Len(s)}

RECURSIVE SeqsUpTo(_, _)
SeqsUpTo(S, n) ==
    IF n = 0 THEN {<<>>}
    ELSE LET shorter == SeqsUpTo(S, n - 1)
         IN  shorter \cup {Append(s, x) : s \in {t \in shorter : Len(t) = n - 1}, x \in S}

(***************************************************************************)
(* parse_latex_section (V11): five heuristics tried in turn.               *)
(* An author->affiliations mapping is a function whose domain is the set   *)
(* of parsed author names; the empty dict is the function of empty domain. *)
(***************************************************************************)
ParsedAuthors == {"j li"}
ParsedAffLists == {<<"U1">>, <<"U2">>}
Mappings == UNION {[A -> ParsedAffLists] : A \in SUBSET ParsedAuthors}
EmptyDict == <<>>

HeuristicNames == {"parbox", "mnras", "altaffil", "elsarticle", "robust"}

\* the truth value of a dict in (if res:)
DictTruthy(m) == DOMAIN m # {}

DispatchInit ==
    /\ heuristic_result \in [HeuristicNames -> Mappings]
    /\ dispatch_pc = "parbox"
    /\ res = EmptyDict
    /\ consulted = <<>>
    /\ dispatch_return = NoneVal

\* a dispatcher that keeps the mapping but goes on to the next heuristic
TryHeuristicKeepGoing(h, next) ==
    /\ dispatch_pc = h
    /\ res' = heuristic_result[h]
    /\ consulted' = Append(consulted, h)
    /\ dispatch_return' =
          (IF DictTruthy(heuristic_result[h]) THEN heuristic_result[h]
           ELSE IF next = "done" /\ \A k \in Range(consulted) : ~DictTruthy(heuristic_result[k])
                THEN EmptyDict
           ELSE dispatch_return)
    /\ dispatch_pc' = next
    /\ UNCHANGED heuristic_result

\* res = parse_X_style(section); if res: return res   (the last one: else return {})
TryHeuristic(h, next) ==
    /\ dispatch_pc = h
    /\ res' = heuristic_result[h]
    /\ consulted' = Append(consulted, h)
    /\ IF DictTruthy(heuristic_result[h])
       THEN /\ dispatch_return' = heuristic_result[h]
            /\ dispatch_pc' = "done"
       ELSE /\ dispatch_return' = (IF next = "done" THEN EmptyDict ELSE dispatch_return)
            /\ dispatch_pc' = next
    /\ UNCHANGED heuristic_result

TryParbox == TryHeuristic("parbox", "mnras")
TryMnras == TryHeuristic("mnras", "altaffil")
TryAltaffil == TryHeuristic("altaffil", "elsarticle")
TryElsarticle == TryHeuristic("elsarticle", "robust")
TryRobust == TryHeuristic("robust", "done")

parse_latex_section ==
    \/ TryParbox
    \/ TryMnras
    \/ TryAltaffil
    \/ TryElsarticle
    \/ TryRobust

(***************************************************************************)
(* normalize_name and names_match.                                         *)
(***************************************************************************)
UpperCase == <<"A","B","C","D","E","F","G","H","I","J","K","L","M",
               "N","O","P","Q","R","S","T","U","V","W","X","Y","Z">>
LowerCase == <<"a","b","c","d","e","f","g","h","i","j","k","l","m",
               "n","o","p","q","r","s","t","u","v","w","x","y","z">>

LowerChar(c) ==
    IF \E i \in 1..Len(UpperCase) : UpperCase[i] = c
    THEN LowerCase[CHOOSE i \in 1..Len(UpperCase) : UpperCase[i] = c]
    ELSE c

\* str.lower()
Lower(s) == [i \in 1..Len(s) |-> LowerChar(s[i])]

\* \s
IsSpace(c) == c \in {" ", "\t"}

\* the alternatives of ^(dr\.?|prof\.?|mr\.?|ms\.?|mrs\.?)\s+ before the \s+
TitleWords == { <<"d","r">>, <<"p","r","o","f">>, <<"m","r">>, <<"m","s">>, <<"m","r","s">> }
TitlePrefixes == TitleWords \cup {Append(t, ".") : t \in TitleWords}

\* the alternatives of \s+(jr\.?|sr\.?|iii|ii|iv)$ after the \s+
SuffixWords == { <<"j","r">>, <<"j","r",".">>, <<"s","r">>, <<"s","r",".">>,
                 <<"i","i","i">>, <<"i","i">>, <<"i","v">> }

\* the character class of the third re.sub: . , ; : - and the three quote characters
SingleQuote == "sq"
DoubleQuote == "dq"
BackQuote == "bq"
Punctuation == {".", ",", ";", ":", "-", SingleQuote, DoubleQuote, BackQuote}

\* the first index >= i whose character is not white space (Len(s)+1 if none)
RECURSIVE SkipSpaces(_, _)
SkipSpaces(s, i) ==
    IF i > Len(s) THEN i
    ELSE IF IsSpace(s[i]) THEN SkipSpaces(s, i + 1) ELSE i

\* the least index q <= i such that s[q..i] is all white space
RECURSIVE SpaceRunStart(_, _)
SpaceRunStart(s, i) ==
    IF i > 1 /\ IsSpace(s[i - 1]) THEN SpaceRunStart(s, i - 1) ELSE i

\* re.sub(r'^(dr\.?|prof\.?|mr\.?|ms\.?|mrs\.?)\s+', '', name)
StripTitle(s) ==
    LET ks == {k \in 1..(Len(s) - 1) :
                  /\ SubSeq(s, 1, k) \in TitlePrefixes
                  /\ IsSpace(s[k + 1])}
    IN  IF ks = {} THEN s
        ELSE LET k == CHOOSE x \in ks : TRUE
             IN  SubSeq(s, SkipSpaces(s, k + 1), Len(s))

\* re.sub(r'\s+(jr\.?|sr\.?|iii|ii|iv)$', '', name)
StripSuffix(s) ==
    LET ps == {p \in 1..Len(s) :
                  /\ SubSeq(s, p + 1, Len(s)) \in SuffixWords
                  /\ IsSpace(s[p])}
    IN  IF ps = {} THEN s
        ELSE LET p == CHOOSE x \in ps : TRUE
             IN  SubSeq(s, 1, SpaceRunStart(s, p) - 1)

\* re.sub of the punctuation class by a blank
PunctToSpace(s) == [i \in 1..Len(s) |-> IF s[i] \in Punctuation THEN " " ELSE s[i]]

\* re.sub(r'\s+', ' ', name)
RECURSIVE CollapseSpaces(_)
CollapseSpaces(s) ==
    IF s = <<>> THEN <<>>
    ELSE IF IsSpace(s[1])
         THEN <<" ">> \o CollapseSpaces(SubSeq(s, SkipSpaces(s, 1), Len(s)))
         ELSE <<s[1]>> \o CollapseSpaces(Tail(s))

\* str.strip()
RECURSIVE Strip(_)
Strip(s) ==
    IF s = <<>> THEN <<>>
    ELSE IF IsSpace(s[1]) THEN Strip(Tail(s))
    ELSE IF IsSpace(s[Len(s)]) THEN Strip(SubSeq(s, 1, Len(s) - 1))
    ELSE s

normalize_name(name) ==
    IF name = <<>> THEN <<>>
    ELSE Strip(CollapseSpaces(PunctToSpace(StripSuffix(StripTitle(Lower(name))))))

\* str.split(): the maximal runs of characters that are not white space
RECURSIVE Split(_)
Split(s) ==
    LET t == SubSeq(s, SkipSpaces(s, 1), Len(s))
    IN  IF t = <<>> THEN <<>>
        ELSE LET ends == {i \in 1..Len(t) : IsSpace(t[i])}
                 e == IF ends = {} THEN Len(t) + 1
                      ELSE CHOOSE i \in ends : \A j \in ends : i <= j
             IN  <<SubSeq(t, 1, e - 1)>> \o Split(SubSeq(t, e, Len(t)))

\* set(p[0] for p in parts[:-1] if p)
Initials(parts) == {parts[i][1] : i \in {j \in 1..(Len(parts) - 1) : parts[j] # <<>>}}

names_match_drop_single(n1, n2) ==
    IF n1 = <<>> \/ n2 = <<>> THEN FALSE
    ELSE LET m1 == normalize_name(n1)
             m2 == normalize_name(n2)
             parts1 == Split(m1)
             parts2 == Split(m2)
         IN  IF m1 = m2 THEN TRUE
             ELSE IF parts1 = <<>> \/ parts2 = <<>> THEN FALSE
             ELSE IF parts1[Len(parts1)] # parts2[Len(parts2)] THEN FALSE
             ELSE Initials(parts1) \cap Initials(parts2) # {}

names_match(n1, n2) ==
    IF n1 = <<>> \/ n2 = <<>> THEN FALSE
    ELSE LET m1 == normalize_name(n1)
             m2 == normalize_name(n2)
             parts1 == Split(m1)
             parts2 == Split(m2)
         IN  IF m1 = m2 THEN TRUE
             ELSE IF parts1 = <<>> \/ parts2 = <<>> THEN FALSE
             ELSE IF parts1[Len(parts1)] # parts2[Len(parts2)] THEN FALSE
             ELSE IF Len(parts1) = 1 \/ Len(parts2) = 1 THEN TRUE
             ELSE Initials(parts1) \cap Initials(parts2) # {}

\* The names compared: up to MaxTokens words of NameWords joined by one blank.
MaxTokens == 2
NameWords == { <<"D","r",".">>, <<"J",".">>, <<"J","o">>, <<"L","i">>, <<"J","r">>, <<"-">> }

RECURSIVE JoinWords(_)
JoinWords(ws) ==
    IF ws = <<>> THEN <<>>
    ELSE IF Len(ws) = 1 THEN ws[1]
    ELSE ws[1] \o <<" ">> \o JoinWords(Tail(ws))

InputNames == {JoinWords(ws) : ws \in SeqsUpTo(NameWords, MaxTokens)}

MatchInit ==
    /\ name1 \in InputNames
    /\ name2 \in InputNames
    /\ match_pc = "call"
    /\ match_result = FALSE

CallNamesMatch ==
    /\ match_pc = "call"
    /\ match_result' = names_match(name1, name2)
    /\ match_pc' = "done"
    /\ UNCHANGED <<name1, name2>>

(***************************************************************************)
(* The fill loop of main (V11).                                            *)
(* A cell of the affiliations column is the Python value its text          *)
(* evaluates to: a list of None and strings, or Unparsable when            *)
(* ast.literal_eval raises on it.  An affiliation string is the sequence   *)
(* of its pieces, so that joining strings is concatenation and the empty   *)
(* string is the empty sequence; None is the value PyNone.                 *)
(***************************************************************************)
PyNone == <<NoneVal>>
Unparsable == << <<"nan">> >>   \* a cell (NaN) on which ast.literal_eval raises

\* the truth value of an affiliation entry or of a returned list
Truthy(a) == a # PyNone /\ a # <<>>

_common_words == {
    <<"t","h","e">>, <<"a">>, <<"a","n">>, <<"o","f">>, <<"i","n">>, <<"o","n">>,
    <<"f","o","r">>, <<"a","n","d">>, <<"w","i","t","h">>, <<"f","r","o","m">>,
    <<"t","o">>, <<"b","y">>, <<"i","t","s">>, <<"t","h","e","i","r">>,
    <<"u","s","i","n","g">>, <<"s","t","u","d","y">>, <<"n","e","w">>,
    <<"b","a","s","e","d">> }

\* set(normalize_name(t).split()) - _common_words
TitleWordSet(t) == Range(Split(normalize_name(t))) \ _common_words

\* all_paper_affiliations as parsed from the LaTeX files, in insertion order:
\* one paper, "On Gas", with two parsed authors
LatexPapers == <<
    [title |-> <<"O","n"," ","G","a","s">>,
     authors |-> << [name |-> <<"J","."," ","L","i">>, affs |-> << <<"U9">> >>],
                    [name |-> <<"J","o"," ","N","g">>, affs |-> << <<"U8">>, <<"U7">> >>] >>] >>

\* preprocessed = {t: {'words': ..., 'authors': a} ...}
preprocessed ==
    [k \in 1..Len(LatexPapers) |->
        [words |-> TitleWordSet(LatexPapers[k].title), authors |-> LatexPapers[k].authors]]

Min(a, b) == IF a <= b THEN a ELSE b

\* the first parsed author of data that names_match accepts, from position j on
RECURSIVE FirstAuthorMatch(_, _, _)
FirstAuthorMatch(author_name, authors, j) ==
    IF j > Len(authors) THEN PyNone
    ELSE IF names_match(author_name, authors[j].name) THEN authors[j].affs
    ELSE FirstAuthorMatch(author_name, authors, j + 1)

\* the loop over preprocessed.items(), from entry k on
RECURSIVE MatchFromPaper(_, _, _, _)
MatchFromPaper(author_name, title_words1, min_overlap, k) ==
    IF k > Len(preprocessed) THEN PyNone
    ELSE LET data == preprocessed[k]
             hit == IF Cardinality(title_words1 \cap data.words) >= min_overlap
                    THEN FirstAuthorMatch(author_name, data.authors, 1)
                    ELSE PyNone
         IN  IF hit # PyNone THEN hit
             ELSE MatchFromPaper(author_name, title_words1, min_overlap, k + 1)

match_author_to_affiliations(author_name, paper_title) ==
    LET title_words1 == TitleWordSet(paper_title)
    IN  IF title_words1 = {} THEN PyNone
        ELSE MatchFromPaper(author_name, title_words1,
                            Min(3, Cardinality(title_words1)), 1)

\* "; ".join(new_affs)
RECURSIVE JoinAffs(_)
JoinAffs(affs) ==
    IF affs = <<>> THEN <<>>
    ELSE IF Len(affs) = 1 THEN affs[1]
    ELSE affs[1] \o <<"; ">> \o JoinAffs(Tail(affs))

\* sub in s
Contains(s, sub) ==
    \E i \in 0..(Len(s) - Len(sub)) : SubSeq(s, i + 1, i + Len(sub)) = sub

\* the test misread as ("collaboration" or "team" in ...), true of every author
IsGroupAuthorAlways(author) == TRUE

\* "collaboration" in author.lower() or "team" in author.lower()
IsGroupAuthor(author) ==
    \/ Contains(Lower(author), <<"c","o","l","l","a","b","o","r","a","t","i","o","n">>)
    \/ Contains(Lower(author), <<"t","e","a","m">>)

\* [a for a in affiliations if a]
Valid(affs) == SelectSeq(affs, Truthy)

\* is_missing(x)
is_missing(cell) ==
    IF cell = Unparsable THEN TRUE
    ELSE \E i \in 1..Len(cell) : cell[i] = PyNone

\* df[df['affiliations'].apply(is_missing)].index.tolist()
RECURSIVE MissingFrom(_, _)
MissingFrom(rows, i) ==
    IF i > Len(rows) THEN <<>>
    ELSE (IF is_missing(rows[i].affiliations) THEN <<i>> ELSE <<>>) \o MissingFrom(rows, i + 1)

missing_indices == MissingFrom(csv_in, 1)

\* while len(affiliations) < len(authors): affiliations.append(None)
RECURSIVE Pad(_, _)
Pad(affs, n) == IF Len(affs) < n THEN Pad(Append(affs, PyNone), n) ELSE affs

\* for i, (author, affil) in enumerate(zip(authors, affiliations)): ...
\* st is [affiliations, changed]; i is the 1-based position
RECURSIVE FillSlots(_, _, _, _)
FillSlots(authors, title, st, i) ==
    IF i > Min(Len(authors), Len(st.affiliations)) THEN st
    ELSE IF st.affiliations[i] # PyNone THEN FillSlots(authors, title, st, i + 1)
    ELSE LET new_affs == match_author_to_affiliations(authors[i], title)
             valid == Valid(st.affiliations)
             st2 == IF Truthy(new_affs)
                    THEN [affiliations |-> [st.affiliations EXCEPT ![i] = JoinAffs(new_affs)],
                          changed |-> TRUE]
                    ELSE IF IsGroupAuthor(authors[i]) /\ valid # <<>>
                    THEN [affiliations |-> [st.affiliations EXCEPT ![i] = valid[1]],
                          changed |-> TRUE]
                    ELSE st
         IN  FillSlots(authors, title, st2, i + 1)

\* if None in affiliations and len(set(valid_affs)) == 1: fill every None with it
SharedFill(st) ==
    LET valid_affs == Valid(st.affiliations)
    IN  IF PyNone \in Range(st.affiliations) /\ Cardinality(Range(valid_affs)) = 1
        THEN [affiliations |-> [i \in 1..Len(st.affiliations) |->
                                   IF st.affiliations[i] = PyNone THEN valid_affs[1]
                                   ELSE st.affiliations[i]],
              changed |-> TRUE]
        ELSE st

\* the body of one iteration for a row whose cells evaluate
FillRow(row) ==
    SharedFill(FillSlots(row.authors, row.title,
                         [affiliations |-> Pad(row.affiliations, Len(row.authors)),
                          changed |-> FALSE], 1))

\* one iteration that stores the list whether or not a slot was filled
ProcessRowAlwaysStore ==
    /\ fill_pc = "loop"
    /\ loop_i <= Len(missing_indices)
    /\ LET idx == missing_indices[loop_i]
           row == df[idx]
       IN  IF row.affiliations = Unparsable
           THEN UNCHANGED <<df, affiliations, changed>>
           ELSE LET st == FillRow(row)
                IN  /\ affiliations' = st.affiliations
                    /\ changed' = st.changed
                    /\ df' = [df EXCEPT ![idx].affiliations = st.affiliations]
    /\ loop_i' = loop_i + 1
    /\ UNCHANGED <<csv_in, fill_pc, output_csv, csv_writes>>

\* for idx in tqdm(missing_indices): one iteration
ProcessRow ==
    /\ fill_pc = "loop"
    /\ loop_i <= Len(missing_indices)
    /\ LET idx == missing_indices[loop_i]
           row == df[idx]
       IN  IF row.affiliations = Unparsable
           THEN UNCHANGED <<df, affiliations, changed>>      \* except: continue
           ELSE LET st == FillRow(row)
                IN  /\ affiliations' = st.affiliations
                    /\ changed' = st.changed
                    /\ df' = IF st.changed
                             THEN [df EXCEPT ![idx].affiliations = st.affiliations]
                             ELSE df
    /\ loop_i' = loop_i + 1
    /\ UNCHANGED <<csv_in, fill_pc, output_csv, csv_writes>>

\* the loop is exhausted
LoopEnd ==
    /\ fill_pc = "loop"
    /\ loop_i > Len(missing_indices)
    /\ fill_pc' = "write"
    /\ UNCHANGED <<csv_in, df, loop_i, affiliations, changed, output_csv, csv_writes>>

\* df.to_csv(OUTPUT_CSV_PATH, index=False)
WriteCsv ==
    /\ fill_pc = "write"
    /\ output_csv' = df
    /\ csv_writes' = csv_writes + 1
    /\ fill_pc' = "report"
    /\ UNCHANGED <<csv_in, df, loop_i, affiliations, changed>>

\* the report and update_latex_files: they read df and write other files
ReportAndCleanup ==
    /\ fill_pc = "report"
    /\ fill_pc' = "done"
    /\ UNCHANGED <<csv_in, df, loop_i, affiliations, changed, output_csv, csv_writes>>

FillerNext == ProcessRow \/ LoopEnd \/ WriteCsv \/ ReportAndCleanup

\* The rows of the CSV.
MaxAuthors == 2
MaxAffs == 3
NumRows == 2

AuthorNames == { <<"J","."," ","L","i">>, <<"K"," ","N","g">>, <<"A"," ","T","e","a","m">> }
PaperTitles == { <<"O","n"," ","G","a","s">>, <<"D","u","s","t">>, <<"O","n"," ","t","h","e">> }
AffValues == { PyNone, <<>>, <<"U1">>, <<"U2">> }

RowDomain ==
    [title : PaperTitles,
     authors : SeqsUpTo(AuthorNames, MaxAuthors),
     affiliations : SeqsUpTo(AffValues, MaxAffs) \cup {Unparsable}]

MkRow(t, au, af) == [title |-> t, authors |-> au, affiliations |-> af]

\* rows of a run of several papers: filled by a match, filled by the group rule,
\* nothing to fill, complete, unreadable, a cell shorter than the author list,
\* a cell longer than the author list, and a group author with nothing to copy
RunRows == {
    MkRow(<<"O","n"," ","G","a","s">>, << <<"J","."," ","L","i">> >>, <<PyNone>>),
    MkRow(<<"D","u","s","t">>, << <<"K"," ","N","g">>, <<"A"," ","T","e","a","m">> >>, << <<"U1">>, PyNone >>),
    MkRow(<<"D","u","s","t">>, << <<"K"," ","N","g">> >>, <<PyNone>>),
    MkRow(<<"O","n"," ","G","a","s">>, << <<"J","."," ","L","i">> >>, << <<"U1">> >>),
    MkRow(<<"D","u","s","t">>, << <<"K"," ","N","g">> >>, Unparsable),
    MkRow(<<"D","u","s","t">>, << <<"K"," ","N","g">>, <<"K"," ","N","g">> >>, <<PyNone>>),
    MkRow(<<"O","n"," ","G","a","s">>, << <<"J","."," ","L","i">> >>, << PyNone, <<"U1">> >>),
    MkRow(<<"O","n"," ","t","h","e">>, << <<"A"," ","T","e","a","m">> >>, << PyNone, <<>> >>) }

FillStart ==
    /\ df = csv_in
    /\ fill_pc = "loop"
    /\ loop_i = 1
    /\ affiliations = <<>>
    /\ changed = FALSE
    /\ output_csv = NoneVal
    /\ csv_writes = 0

\* one paper, any cells within the bounds
FillRowInit == csv_in \in [1..1 -> RowDomain] /\ FillStart

\* NumRows papers
FillRunInit == csv_in \in [1..NumRows -> RunRows] /\ FillStart

(***************************************************************************)
(* adding_countries.py: the downloader (producer) and processor (consumer) *)
(* threads around work_queue.  A latex_countries cell is PyNone (NaN), the *)
(* empty string or a string of countries; strings are sequences of pieces. *)
(***************************************************************************)
ARXIV_RATE_LIMIT == 3
SAVE_INTERVAL == 10
NumPapers == 3

Sentinel == [kind |-> "None", index |-> 0]
WorkItem(i) == [kind |-> "work", index |-> i]

CountryCells == { PyNone, <<>>, <<"Germany">> }

\* ", ".join(countries_found)
RECURSIVE JoinCountries(_)
JoinCountries(cs) ==
    IF cs = <<>> THEN <<>>
    ELSE IF Len(cs) = 1 THEN <<cs[1]>>
    ELSE <<cs[1], ", ">> \o JoinCountries(Tail(cs))

\* what process_lines_with_buffer may return for a downloaded paper
CountriesFound == { <<>>, <<"Germany">>, <<"Germany", "Germany">> }

\* pd.notna(row['latex_countries']) and row['latex_countries'] != ""
AlreadyDone(row) == row.latex_countries # PyNone /\ row.latex_countries # <<>>

CountriesInit ==
    /\ ac_df \in [1..NumPapers -> [latex_countries : CountryCells, has_id : BOOLEAN]]
    /\ work_queue = <<>>
    /\ dl_pc = "iter"
    /\ dl_i = 1
    /\ pr_pc = "get"
    /\ item = Sentinel
    /\ processed_count = 0
    /\ ac_saves = 0
    /\ ac_main_pc = "join"
    /\ now = 0
    /\ request_times = <<>>
    /\ enqueued = <<>>
    /\ processed = <<>>

\* the two continue branches: already done, or no arXiv id in pdf_link
DownloaderSkip ==
    /\ dl_pc = "iter"
    /\ dl_i <= NumPapers
    /\ AlreadyDone(ac_df[dl_i]) \/ ~ac_df[dl_i].has_id
    /\ dl_i' = dl_i + 1
    /\ UNCHANGED <<ac_df, work_queue, dl_pc, pr_pc, item, processed_count, ac_saves,
                   ac_main_pc, now, request_times, enqueued, processed>>

\* a downloader that sleeps only after a successful download
DownloaderRequestSleepOnSuccess ==
    /\ dl_pc = "iter"
    /\ dl_i <= NumPapers
    /\ ~AlreadyDone(ac_df[dl_i]) /\ ac_df[dl_i].has_id
    /\ request_times' = Append(request_times, now)
    /\ \E outcome \in {"200", "other status", "exception"} :
          IF outcome = "200"
          THEN /\ work_queue' = Append(work_queue, WorkItem(dl_i))
               /\ enqueued' = Append(enqueued, WorkItem(dl_i))
               /\ dl_pc' = "sleep"
               /\ dl_i' = dl_i
          ELSE /\ UNCHANGED <<work_queue, enqueued>>
               /\ dl_pc' = "iter"
               /\ dl_i' = dl_i + 1
    /\ UNCHANGED <<ac_df, pr_pc, item, processed_count, ac_saves, ac_main_pc, now, processed>>

\* requests.get(url, ...) and what follows it up to the sleep
DownloaderRequest ==
    /\ dl_pc = "iter"
    /\ dl_i <= NumPapers
    /\ ~AlreadyDone(ac_df[dl_i]) /\ ac_df[dl_i].has_id
    /\ request_times' = Append(request_times, now)
    /\ \E outcome \in {"200", "other status", "exception"} :
          IF outcome = "200"
          THEN /\ work_queue' = Append(work_queue, WorkItem(dl_i))    \* work_queue.put(...)
               /\ enqueued' = Append(enqueued, WorkItem(dl_i))
          ELSE UNCHANGED <<work_queue, enqueued>>                      \* shutil.rmtree
    /\ dl_pc' = "sleep"
    /\ UNCHANGED <<ac_df, dl_i, pr_pc, item, processed_count, ac_saves, ac_main_pc, now,
                   processed>>

\* time.sleep(ARXIV_RATE_LIMIT)
DownloaderSleep ==
    /\ dl_pc = "sleep"
    /\ now' = now + ARXIV_RATE_LIMIT
    /\ dl_i' = dl_i + 1
    /\ dl_pc' = "iter"
    /\ UNCHANGED <<ac_df, work_queue, pr_pc, item, processed_count, ac_saves, ac_main_pc,
                   request_times, enqueued, processed>>

\* work_queue.put(None) after the loop
DownloaderSentinel ==
    /\ dl_pc = "iter"
    /\ dl_i > NumPapers
    /\ work_queue' = Append(work_queue, Sentinel)
    /\ enqueued' = Append(enqueued, Sentinel)
    /\ dl_pc' = "exit"
    /\ UNCHANGED <<ac_df, dl_i, pr_pc, item, processed_count, ac_saves, ac_main_pc, now,
                   request_times, processed>>

\* a processor on a LIFO queue: get() takes the newest item
ProcessorGetNewest ==
    /\ pr_pc = "get"
    /\ work_queue # <<>>
    /\ item' = work_queue[Len(work_queue)]
    /\ work_queue' = SubSeq(work_queue, 1, Len(work_queue) - 1)
    /\ pr_pc' = IF work_queue[Len(work_queue)] = Sentinel THEN "exit" ELSE "work"
    /\ UNCHANGED <<ac_df, dl_pc, dl_i, processed_count, ac_saves, ac_main_pc, now,
                   request_times, enqueued, processed>>

\* item = work_queue.get(); if item is None: break
ProcessorGet ==
    /\ pr_pc = "get"
    /\ work_queue # <<>>
    /\ item' = Head(work_queue)
    /\ work_queue' = Tail(work_queue)
    /\ pr_pc' = IF Head(work_queue) = Sentinel THEN "exit" ELSE "work"
    /\ UNCHANGED <<ac_df, dl_pc, dl_i, processed_count, ac_saves, ac_main_pc, now,
                   request_times, enqueued, processed>>

\* extract, analyze, df.at[index, 'latex_countries'] = ..., save, cleanup, task_done
ProcessorWork ==
    /\ pr_pc = "work"
    /\ \E countries_found \in CountriesFound :
          ac_df' = [ac_df EXCEPT ![item.index].latex_countries = JoinCountries(countries_found)]
    /\ processed_count' = processed_count + 1
    /\ ac_saves' = IF (processed_count + 1) % SAVE_INTERVAL = 0 THEN ac_saves + 1 ELSE ac_saves
    /\ processed' = Append(processed, item)
    /\ pr_pc' = "get"
    /\ UNCHANGED <<work_queue, dl_pc, dl_i, item, ac_main_pc, now, request_times, enqueued>>

\* t_producer.join(); t_consumer.join(); df.to_csv(OUTPUT_FILE)
MainJoinAndSave ==
    /\ ac_main_pc = "join"
    /\ dl_pc = "exit"
    /\ pr_pc = "exit"
    /\ ac_saves' = ac_saves + 1
    /\ ac_main_pc' = "done"
    /\ UNCHANGED <<ac_df, work_queue, dl_pc, dl_i, pr_pc, item, processed_count, now,
                   request_times, enqueued, processed>>

CountriesNext ==
    \/ DownloaderSkip
    \/ DownloaderRequest
    \/ DownloaderSleep
    \/ DownloaderSentinel
    \/ ProcessorGet
    \/ ProcessorWork
    \/ MainJoinAndSave

(***************************************************************************)
(* adding_countries.process_lines_with_buffer.  The file is read line by   *)
(* line; a line is the list country_regex.findall gives for it, and the    *)
(* next line is chosen when the loop takes it.                             *)
(***************************************************************************)
BUFFER_LINES == 30
MaxLines == 64
MaxMatchLines == 2

\* search_map, in insertion order: the countries of world_coords, then replacement_dict
search_map == <<
    [key |-> <<"G","e","r","m","a","n","y">>, value |-> "Germany"],
    [key |-> <<"U","n","i","t","e","d"," ","S","t","a","t","e","s">>, value |-> "United States"],
    [key |-> <<"U","S","A">>, value |-> "United States"] >>

\* for key in search_map: if key.lower() == match.lower(): ...; break
RECURSIVE ResolveFrom(_, _)
ResolveFrom(match, k) ==
    IF k > Len(search_map) THEN <<>>
    ELSE IF Lower(search_map[k].key) = Lower(match) THEN <<search_map[k].value>>
    ELSE ResolveFrom(match, k + 1)

\* for match in matches: found_matches.append(...)
RECURSIVE ResolveAll(_)
ResolveAll(matches) ==
    IF matches = <<>> THEN <<>>
    ELSE ResolveFrom(matches[1], 1) \o ResolveAll(Tail(matches))

\* what findall can give for a line: nothing, or matches in any letter case
LineMatches == {
    <<>>,
    << <<"u","s","a">> >>,
    << <<"G","e","r","m","a","n","y">>, <<"U","S","A">> >>,
    << <<"G","E","R","M","A","N","Y">>, <<"g","e","r","m","a","n","y">> >> }

ScanInit ==
    /\ found_matches = <<>>
    /\ lines_since_last_match = 0
    /\ has_found_any = FALSE
    /\ scan_pc = "scan"
    /\ stopped_by_buffer = FALSE
    /\ lines_scanned = 0
    /\ last_match_line = 0
    /\ match_lines = 0
    /\ scanned_matches = <<>>

\* an iteration that counts the lines without a match from the first line on
ScanLineCountAlways ==
    /\ scan_pc = "scan"
    /\ lines_scanned < MaxLines
    /\ \E matches \in LineMatches :
          /\ matches # <<>> => match_lines < MaxMatchLines
          /\ lines_scanned' = lines_scanned + 1
          /\ scanned_matches' = scanned_matches \o matches
          /\ IF matches # <<>>
             THEN /\ has_found_any' = TRUE
                  /\ lines_since_last_match' = 0
                  /\ found_matches' = found_matches \o ResolveAll(matches)
                  /\ last_match_line' = lines_scanned + 1
                  /\ match_lines' = match_lines + 1
                  /\ UNCHANGED <<scan_pc, stopped_by_buffer>>
             ELSE /\ lines_since_last_match' = lines_since_last_match + 1
                  /\ IF lines_since_last_match + 1 >= BUFFER_LINES
                     THEN scan_pc' = "return" /\ stopped_by_buffer' = TRUE
                     ELSE UNCHANGED <<scan_pc, stopped_by_buffer>>
                  /\ UNCHANGED <<has_found_any, found_matches, last_match_line, match_lines>>

\* for line in lines: one iteration
ScanLine ==
    /\ scan_pc = "scan"
    /\ lines_scanned < MaxLines
    /\ \E matches \in LineMatches :
          /\ matches # <<>> => match_lines < MaxMatchLines
          /\ lines_scanned' = lines_scanned + 1
          /\ scanned_matches' = scanned_matches \o matches
          /\ IF matches # <<>>
             THEN /\ has_found_any' = TRUE
                  /\ lines_since_last_match' = 0
                  /\ found_matches' = found_matches \o ResolveAll(matches)
                  /\ last_match_line' = lines_scanned + 1
                  /\ match_lines' = match_lines + 1
                  /\ UNCHANGED <<scan_pc, stopped_by_buffer>>
             ELSE /\ IF has_found_any
                     THEN /\ lines_since_last_match' = lines_since_last_match + 1
                          /\ IF lines_since_last_match + 1 >= BUFFER_LINES
                             THEN scan_pc' = "return" /\ stopped_by_buffer' = TRUE    \* break
                             ELSE UNCHANGED <<scan_pc, stopped_by_buffer>>
                     ELSE UNCHANGED <<lines_since_last_match, scan_pc, stopped_by_buffer>>
                  /\ UNCHANGED <<has_found_any, found_matches, last_match_line, match_lines>>

\* the lines are exhausted: return found_matches
EndOfLines ==
    /\ scan_pc = "scan"
    /\ scan_pc' = "return"
    /\ UNCHANGED <<found_matches, lines_since_last_match, has_found_any, stopped_by_buffer,
                   lines_scanned, last_match_line, match_lines, scanned_matches>>

ScanNext == ScanLine \/ EndOfLines

(***************************************************************************)
(* extract_latex_affiliations.py: main submits one process_row_worker per  *)
(* paper to a pool of MAX_WORKERS threads.  A result block reaches the     *)
(* file in two chunks (the buffered writer flushes a long text in parts),  *)
(* and a counter += is a load followed by a store.                         *)
(***************************************************************************)
MAX_WORKERS == 5
NumToProcess == 3

Workers == 1..NumToProcess
ActivePcs == {"running", "wait_lock", "load_count", "store_count", "write_head",
              "write_body", "print"}
LockedPcs == {"load_count", "store_count", "write_head", "write_body", "print"}

Chunk(owner, part) == [owner |-> owner, part |-> part]

ExtractInit ==
    /\ ex_main_pc = "submit"
    /\ title_is_str \in [Workers -> BOOLEAN]
    /\ worker_pc = [i \in Workers |-> "unsubmitted"]
    /\ is_success = [i \in Workers |-> FALSE]
    /\ write_lock = 0
    /\ success_count = 0
    /\ fail_count = 0
    /\ loaded_count = [i \in Workers |-> 0]
    /\ counted = [i \in Workers |-> 0]
    /\ outfile = <<Chunk(0, "header")>>
    /\ summary_total = -1

\* futures.append(executor.submit(process_row_worker, i, row, total)); time.sleep(0.1)
Submit ==
    /\ ex_main_pc = "submit"
    /\ \E i \in Workers :
          /\ worker_pc[i] = "unsubmitted"
          /\ \A j \in Workers : j < i => worker_pc[j] # "unsubmitted"
          /\ worker_pc' = [worker_pc EXCEPT ![i] = "queued"]
          /\ ex_main_pc' = IF i = NumToProcess THEN "wait" ELSE "submit"
    /\ UNCHANGED <<title_is_str, is_success, write_lock, success_count, fail_count,
                   loaded_count, counted, outfile, summary_total>>

\* a pool thread takes the task
Start(i) ==
    /\ worker_pc[i] = "queued"
    /\ Cardinality({j \in Workers : worker_pc[j] \in ActivePcs}) < MAX_WORKERS
    /\ worker_pc' = [worker_pc EXCEPT ![i] = "running"]
    /\ UNCHANGED <<ex_main_pc, title_is_str, is_success, write_lock, success_count,
                   fail_count, loaded_count, counted, outfile, summary_total>>

\* the part of process_row_worker before the lock
Compute(i) ==
    /\ worker_pc[i] = "running"
    /\ \E outcome \in {"no arXiv id", "no sources", "no section", "section found"} :
          is_success' = [is_success EXCEPT ![i] = (outcome = "section found")]
    /\ worker_pc' = [worker_pc EXCEPT ![i] = "wait_lock"]
    /\ UNCHANGED <<ex_main_pc, title_is_str, write_lock, success_count, fail_count,
                   loaded_count, counted, outfile, summary_total>>

\* a worker that enters the block without taking the lock
AcquireWithoutLock(i) ==
    /\ worker_pc[i] = "wait_lock"
    /\ worker_pc' = [worker_pc EXCEPT ![i] = "load_count"]
    /\ UNCHANGED <<ex_main_pc, title_is_str, is_success, write_lock, success_count,
                   fail_count, loaded_count, counted, outfile, summary_total>>

\* with write_lock:
Acquire(i) ==
    /\ worker_pc[i] = "wait_lock"
    /\ write_lock = 0
    /\ write_lock' = i
    /\ worker_pc' = [worker_pc EXCEPT ![i] = "load_count"]
    /\ UNCHANGED <<ex_main_pc, title_is_str, is_success, success_count, fail_count,
                   loaded_count, counted, outfile, summary_total>>

\* success_count += 1 / fail_count += 1: the load
LoadCount(i) ==
    /\ worker_pc[i] = "load_count"
    /\ loaded_count' = [loaded_count EXCEPT
                           ![i] = IF is_success[i] THEN success_count ELSE fail_count]
    /\ worker_pc' = [worker_pc EXCEPT ![i] = "store_count"]
    /\ UNCHANGED <<ex_main_pc, title_is_str, is_success, write_lock, success_count,
                   fail_count, counted, outfile, summary_total>>

\* success_count += 1 / fail_count += 1: the store
StoreCount(i) ==
    /\ worker_pc[i] = "store_count"
    /\ IF is_success[i]
       THEN success_count' = loaded_count[i] + 1 /\ UNCHANGED fail_count
       ELSE fail_count' = loaded_count[i] + 1 /\ UNCHANGED success_count
    /\ counted' = [counted EXCEPT ![i] = counted[i] + 1]
    /\ worker_pc' = [worker_pc EXCEPT ![i] = "write_head"]
    /\ UNCHANGED <<ex_main_pc, title_is_str, is_success, write_lock, loaded_count, outfile,
                   summary_total>>

\* outfile.write(result_text): the first part reaches the file
WriteHead(i) ==
    /\ worker_pc[i] = "write_head"
    /\ outfile' = Append(outfile, Chunk(i, "head"))
    /\ worker_pc' = [worker_pc EXCEPT ![i] = "write_body"]
    /\ UNCHANGED <<ex_main_pc, title_is_str, is_success, write_lock, success_count,
                   fail_count, loaded_count, counted, summary_total>>

\* the rest reaches the file when the with block closes it
WriteBody(i) ==
    /\ worker_pc[i] = "write_body"
    /\ outfile' = Append(outfile, Chunk(i, "body"))
    /\ worker_pc' = [worker_pc EXCEPT ![i] = "print"]
    /\ UNCHANGED <<ex_main_pc, title_is_str, is_success, write_lock, success_count,
                   fail_count, loaded_count, counted, summary_total>>

\* print(f"... {title[:60]}..."), which raises TypeError on a NaN title, and the
\* end of the with block, which releases the lock either way
PrintAndRelease(i) ==
    /\ worker_pc[i] = "print"
    /\ write_lock' = IF write_lock = i THEN 0 ELSE write_lock
    /\ worker_pc' = [worker_pc EXCEPT ![i] = IF title_is_str[i] THEN "done" ELSE "raised"]
    /\ UNCHANGED <<ex_main_pc, title_is_str, is_success, success_count, fail_count,
                   loaded_count, counted, outfile, summary_total>>

\* for future in as_completed(futures): future.result(), and the exit of the
\* executor's with block, which waits for every worker
WaitAll ==
    /\ ex_main_pc = "wait"
    /\ \A i \in Workers : worker_pc[i] \in {"done", "raised"}
    /\ ex_main_pc' = IF \E i \in Workers : worker_pc[i] = "raised" THEN "raised" ELSE "summary"
    /\ UNCHANGED <<title_is_str, worker_pc, is_success, write_lock, success_count,
                   fail_count, loaded_count, counted, outfile, summary_total>>

\* the summary block
WriteSummary ==
    /\ ex_main_pc = "summary"
    /\ outfile' = Append(outfile, Chunk(0, "summary"))
    /\ summary_total' = success_count + fail_count
    /\ ex_main_pc' = "done"
    /\ UNCHANGED <<title_is_str, worker_pc, is_success, write_lock, success_count,
                   fail_count, loaded_count, counted>>

ExtractNext ==
    \/ Submit
    \/ \E i \in Workers : Start(i)
    \/ \E i \in Workers : Compute(i)
    \/ \E i \in Workers : Acquire(i)
    \/ \E i \in Workers : LoadCount(i)
    \/ \E i \in Workers : StoreCount(i)
    \/ \E i \in Workers : WriteHead(i)
    \/ \E i \in Workers : WriteBody(i)
    \/ \E i \in Workers : PrintAndRelease(i)
    \/ WaitAll
    \/ WriteSummary

(***************************************************************************)
(* ads_affils.py: main calls get_author_affiliation_ads for each author;   *)
(* on a 429 answer the function sleeps and calls itself.  MaxAdsDepth      *)
(* stands for the interpreter's recursion limit, at which the call raises  *)
(* RecursionError into the function's own except clause.                   *)
(***************************************************************************)
RETRY_WAIT == 60
NumAdsAuthors == 3
MaxAdsDepth == 3

AdsInit ==
    /\ ads_pc = "main"
    /\ ads_i = 1
    /\ ads_depth = 0
    /\ ads_requests = 0
    /\ ads_waited = 0
    /\ ads_results = <<>>

\* affiliation = get_author_affiliation_ads(author)
AdsCall ==
    /\ ads_pc = "main"
    /\ ads_i <= NumAdsAuthors
    /\ ads_depth' = 1
    /\ ads_requests' = 0
    /\ ads_waited' = 0
    /\ ads_pc' = "request"
    /\ UNCHANGED <<ads_i, ads_results>>

\* what main appends for a returned affiliation, and its next iteration
AdsReturn(affiliation) ==
    /\ ads_results' = Append(ads_results, IF affiliation = NoneVal THEN "Not Found"
                                          ELSE affiliation)
    /\ ads_i' = ads_i + 1
    /\ ads_depth' = 0
    /\ ads_pc' = "main"

\* response = requests.get(...) and the handling of the answer in the try block
AdsRequest ==
    /\ ads_pc = "request"
    /\ ads_requests' = ads_requests + 1
    /\ \E answer \in {"429", "affiliation", "no docs", "error"} :
          IF answer = "429"
          THEN /\ ads_pc' = "sleep"
               /\ UNCHANGED <<ads_i, ads_depth, ads_results>>
          ELSE AdsReturn(IF answer = "affiliation" THEN "Univ A" ELSE NoneVal)
    /\ UNCHANGED ads_waited

\* time.sleep(RETRY_WAIT); return get_author_affiliation_ads(author_name)
AdsSleepAndRetry ==
    /\ ads_pc = "sleep"
    /\ ads_waited' = ads_waited + RETRY_WAIT
    /\ IF ads_depth < MaxAdsDepth
       THEN /\ ads_depth' = ads_depth + 1
            /\ ads_pc' = "request"
            /\ UNCHANGED <<ads_i, ads_results>>
       ELSE AdsReturn(NoneVal)          \* RecursionError, caught: return None
    /\ UNCHANGED ads_requests

\* df.to_csv(OUTPUT_PATH) after the loop
AdsSave ==
    /\ ads_pc = "main"
    /\ ads_i > NumAdsAuthors
    /\ ads_pc' = "done"
    /\ UNCHANGED <<ads_i, ads_depth, ads_requests, ads_waited, ads_results>>

AdsNext == AdsCall \/ AdsRequest \/ AdsSleepAndRetry \/ AdsSave

(***************************************************************************)
(* extract_latex_affiliations.find_affiliation_section.  The search loop   *)
(* takes the lines of the file one by one; what a line holds is chosen     *)
(* when the loop takes it, and the length of the file is fixed when the    *)
(* loop ends.  Lines are numbered from 0 as in the code, and the returned  *)
(* text is the sequence of the numbers of the lines joined into it.        *)
(***************************************************************************)
VARIABLES
    fa_pc,              \* "search" in the for loop, "extract" after it, "done"
    fa_i,               \* the loop's i
    first_match_line,   \* its local, -1 while nothing matched
    fa_len,             \* len(lines), 0 while the end of the file is not reached
    fa_comment_keyword, \* a line taken so far had a keyword only inside a comment
    fa_none,            \* the function returned None
    extracted_section   \* the lines of the returned text

faVars == <<fa_pc, fa_i, first_match_line, fa_len, fa_comment_keyword, fa_none,
            extracted_section>>

ContextLines == 50
MaxFileLines == 104

\* a line without keyword, with a keyword as listed, with a keyword in
\* another case, with a keyword only after a % sign
LineKinds == {"plain", "keyword", "KEYWORD", "comment_keyword"}

\* re.sub(r"%.*", "", tex_content) on one line
RemoveComment(line) == IF line = "comment_keyword" THEN "plain" ELSE line

\* keyword.lower() in line.lower() for some keyword
HasKeyword(line) == line \in {"keyword", "KEYWORD"}

Max(a, b) == IF a >= b THEN a ELSE b

\* lines[start_line:end_line]
Slice(start_line, end_line) ==
    IF end_line <= start_line THEN <<>>
    ELSE [k \in 1..(end_line - start_line) |-> start_line + k - 1]

FaInit ==
    /\ fa_pc = "search"
    /\ fa_i = 0
    /\ first_match_line = -1
    /\ fa_len = 0
    /\ fa_comment_keyword = FALSE
    /\ fa_none = FALSE
    /\ extracted_section = <<>>

\* one iteration of "for i, line in enumerate(lines)"
FaLine ==
    /\ fa_pc = "search"
    /\ fa_i < MaxFileLines
    /\ \E line \in LineKinds :
        /\ fa_comment_keyword' = (fa_comment_keyword \/ line = "comment_keyword")
        /\ IF HasKeyword(RemoveComment(line))
           THEN /\ first_match_line' = fa_i
                /\ fa_pc' = "extract"
                /\ fa_i' = fa_i
           ELSE /\ fa_i' = fa_i + 1
                /\ UNCHANGED <<first_match_line, fa_pc>>
    /\ UNCHANGED <<fa_len, fa_none, extracted_section>>

\* the loop runs out of lines (split gives at least one line): return None
FaNoMatch ==
    /\ fa_pc = "search"
    /\ fa_i >= 1
    /\ fa_len' = fa_i
    /\ fa_none' = TRUE
    /\ fa_pc' = "done"
    /\ UNCHANGED <<fa_i, first_match_line, fa_comment_keyword, extracted_section>>

\* after the break: the file has some number of lines beyond the match
FaExtract ==
    /\ fa_pc = "extract"
    /\ \E n \in (first_match_line + 1)..MaxFileLines :
        /\ fa_len' = n
        /\ LET start_line == Max(0, first_match_line - ContextLines)
               end_line == Min(n, first_match_line + ContextLines)
           IN extracted_section' = Slice(start_line, end_line)
    /\ fa_pc' = "done"
    /\ UNCHANGED <<fa_i, first_match_line, fa_comment_keyword, fa_none>>

find_affiliation_section == FaLine \/ FaNoMatch \/ FaExtract

(***************************************************************************)
(* download_arxiv.py: the download loop over arxiv_ids, and the script     *)
(* being stopped and started again on the same output directory.  An id is *)
(* a sequence of characters and a file name is an id followed by its       *)
(* extension; a file is complete once every chunk has been written to it.  *)
(* Time is counted in seconds.                                             *)
(***************************************************************************)
VARIABLES
    arxiv_ids,          \* the list the loop runs over
    da_pc,              \* "check", "request", "write", "timing", "done", "raised", "stopped"
    da_i,               \* position of the loop in arxiv_ids, from 1
    start,              \* the script's global start, -1 while it is not bound
    da_now,             \* time.time()
    output_dir,         \* the files of output_dir: [id, ext, complete]
    da_errors,          \* status["errors"]
    da_run,             \* how many times the script has been started
    da_request_times,   \* time of each requests.get of this run, in order
    da_skipped          \* the ids skipped so far, each with the run that skipped it

downloadVars == <<arxiv_ids, da_pc, da_i, start, da_now, output_dir, da_errors, da_run,
                  da_request_times, da_skipped>>

RateLimitSecs == 3
NumIds == 3
MaxRuns == 2

\* two ids of which one is the beginning of the other, and an unrelated one
ArxivIds == {<<"7", "1">>, <<"7", "1", "2">>, <<"8", "4">>}
Extensions == {".tar.gz", ".pdf"}
\* seconds a request or the writing of a file can take
Durations == {0, 1, 4}

\* fname.startswith(aid), where fname is the file's id followed by its extension
StartsWith(file, aid) ==
    LET fname == file.id \o <<file.ext>>
    IN Len(aid) <= Len(fname) /\ SubSeq(fname, 1, Len(aid)) = aid

\* any(fname.startswith(aid) for fname in os.listdir(output_dir))
AlreadyDownloaded(aid) == \E file \in output_dir : StartsWith(file, aid)

DownloadInit ==
    /\ arxiv_ids \in [1..NumIds -> ArxivIds]
    /\ da_pc = "check"
    /\ da_i = 1
    /\ start = -1
    /\ da_now = 0
    /\ output_dir = {}
    /\ da_errors = 0
    /\ da_run = 1
    /\ da_request_times = <<>>
    /\ da_skipped = {}

\* the for statement has no id left
DownloadLoopEnd ==
    /\ da_pc = "check"
    /\ da_i > Len(arxiv_ids)
    /\ da_pc' = "done"
    /\ UNCHANGED <<arxiv_ids, da_i, start, da_now, output_dir, da_errors, da_run,
                   da_request_times, da_skipped>>

\* the id has a file already: continue
DownloadSkip ==
    /\ da_pc = "check"
    /\ da_i <= Len(arxiv_ids)
    /\ AlreadyDownloaded(arxiv_ids[da_i])
    /\ da_skipped' = da_skipped \cup {[run |-> da_run, id |-> arxiv_ids[da_i]]}
    /\ da_i' = da_i + 1
    /\ UNCHANGED <<arxiv_ids, da_pc, start, da_now, output_dir, da_errors, da_run,
                   da_request_times>>

\* requests.get: answered 200 (start is bound and the file opened for
\* writing), answered with another status, or raising
DownloadRequest ==
    /\ da_pc = "check"
    /\ da_i <= Len(arxiv_ids)
    /\ ~AlreadyDownloaded(arxiv_ids[da_i])
    /\ da_request_times' = Append(da_request_times, da_now)
    /\ \E d \in Durations, outcome \in {"200", "other", "exception"}, ext \in Extensions :
        /\ da_now' = da_now + d
        /\ IF outcome = "200"
           THEN /\ start' = da_now + d
                /\ output_dir' = output_dir \cup
                        {[id |-> arxiv_ids[da_i], ext |-> ext, complete |-> FALSE]}
                /\ da_pc' = "write"
                /\ UNCHANGED da_errors
           ELSE /\ da_errors' = da_errors + 1
                /\ da_pc' = "timing"
                /\ UNCHANGED <<start, output_dir>>
    /\ UNCHANGED <<arxiv_ids, da_i, da_run, da_skipped>>

\* every chunk of response.iter_content is written and the file closed
DownloadWrite ==
    /\ da_pc = "write"
    /\ \E d \in Durations : da_now' = da_now + d
    /\ output_dir' = {IF file.id = arxiv_ids[da_i] /\ ~file.complete
                      THEN [file EXCEPT !.complete = TRUE] ELSE file : file \in output_dir}
    /\ da_pc' = "timing"
    /\ UNCHANGED <<arxiv_ids, da_i, start, da_errors, da_run, da_request_times, da_skipped>>

\* iter_content raises after some chunks: the except clause counts an error
DownloadWriteFails ==
    /\ da_pc = "write"
    /\ \E d \in Durations : da_now' = da_now + d
    /\ da_errors' = da_errors + 1
    /\ da_pc' = "timing"
    /\ UNCHANGED <<arxiv_ids, da_i, start, output_dir, da_run, da_request_times,
                   da_skipped>>

\* end = time.time(); elapsed = end - start; sleep for what is left of the
\* 3 seconds.  Reading start while it is not bound raises NameError.
DownloadTiming ==
    /\ da_pc = "timing"
    /\ IF start < 0
       THEN /\ da_pc' = "raised"
            /\ UNCHANGED <<da_i, da_now>>
       ELSE LET elapsed == da_now - start
            IN /\ da_now' = IF elapsed < RateLimitSecs
                            THEN da_now + (RateLimitSecs - elapsed) ELSE da_now
               /\ da_i' = da_i + 1
               /\ da_pc' = "check"
    /\ UNCHANGED <<arxiv_ids, start, output_dir, da_errors, da_run, da_request_times,
                   da_skipped>>

\* the script is stopped from outside, wherever it is
DownloadStop ==
    /\ da_pc \in {"check", "write", "timing"}
    /\ da_pc' = "stopped"
    /\ UNCHANGED <<arxiv_ids, da_i, start, da_now, output_dir, da_errors, da_run,
                   da_request_times, da_skipped>>

\* the script is started again: a new process over the same directory
DownloadRestart ==
    /\ da_pc \in {"stopped", "done", "raised"}
    /\ da_run < MaxRuns
    /\ da_run' = da_run + 1
    /\ da_pc' = "check"
    /\ da_i' = 1
    /\ start' = -1
    /\ da_now' = 0
    /\ da_errors' = 0
    /\ da_request_times' = <<>>
    /\ UNCHANGED <<arxiv_ids, output_dir, da_skipped>>

DownloadNext ==
    \/ DownloadLoopEnd \/ DownloadSkip \/ DownloadRequest \/ DownloadWrite
    \/ DownloadWriteFails \/ DownloadTiming \/ DownloadStop \/ DownloadRestart

(***************************************************************************)
(* harvard_ads.ads_request: one call.  The server answers every request    *)
(* with 429, with a success whose body parses or does not parse as JSON,   *)
(* with 401 or another HTTP error, or the request raises; it answers 429   *)
(* at most rate_limited_left more times.                                   *)
(***************************************************************************)
VARIABLES
    ar_pc,              \* "get" before requests.get, "sleep", "returned"
    params,             \* the argument of the call
    rate_limited_left,  \* how many more 429 answers the server will give
    ar_log,             \* every request made: its params and the answer to it
    ar_waits,           \* number of time.sleep(RETRY_WAIT) calls
    ar_return           \* "pending", "json" (r.json()) or "None"

adsRequestVars == <<ar_pc, params, rate_limited_left, ar_log, ar_waits, ar_return>>

Max429 == 4
ParamsSet == {"q1", "q2", "q3"}
Answers == {"429", "ok", "ok_bad_json", "401", "http_error", "exception"}

AdsRequestInit ==
    /\ ar_pc = "get"
    /\ params \in ParamsSet
    /\ rate_limited_left \in 0..Max429
    /\ ar_log = <<>>
    /\ ar_waits = 0
    /\ ar_return = "pending"

\* the mutant of AdsRequestGet: a 429 answer is treated as any HTTP error
AdsRequestGetNoRetry ==
    /\ ar_pc = "get"
    /\ \E answer \in Answers :
        /\ answer = "429" => rate_limited_left > 0
        /\ ar_log' = Append(ar_log, [params |-> params, answer |-> answer])
        /\ rate_limited_left' = IF answer = "429" THEN rate_limited_left - 1
                                ELSE rate_limited_left
        /\ ar_return' = IF answer = "ok" THEN "json" ELSE "None"
        /\ ar_pc' = "returned"
    /\ UNCHANGED <<params, ar_waits>>

\* requests.get and what follows it up to the sleep or the return
AdsRequestGet ==
    /\ ar_pc = "get"
    /\ \E answer \in Answers :
        /\ answer = "429" => rate_limited_left > 0
        /\ ar_log' = Append(ar_log, [params |-> params, answer |-> answer])
        /\ IF answer = "429"
           THEN /\ rate_limited_left' = rate_limited_left - 1
                /\ ar_pc' = "sleep"
                /\ UNCHANGED ar_return
           ELSE /\ ar_return' = IF answer = "ok" THEN "json" ELSE "None"
                /\ ar_pc' = "returned"
                /\ UNCHANGED rate_limited_left
    /\ UNCHANGED <<params, ar_waits>>

\* time.sleep(RETRY_WAIT); continue
AdsRequestSleep ==
    /\ ar_pc = "sleep"
    /\ ar_waits' = ar_waits + 1
    /\ ar_pc' = "get"
    /\ UNCHANGED <<params, rate_limited_left, ar_log, ar_return>>

ads_request == AdsRequestGet \/ AdsRequestSleep

(***************************************************************************)
(* harvard_ads.main: the papers of CSV_PATH not yet in OUTPUT_PATH are     *)
(* handled in batches of BATCH_SIZE and their results appended to          *)
(* OUTPUT_PATH.  A paper is its row number in df and a title is a number;  *)
(* a row of OUTPUT_PATH records the paper it is the result of (0 for the   *)
(* rows of an earlier run) and the to_csv call that wrote it.              *)
(***************************************************************************)
VARIABLES
    ha_pc,              \* "load", "resolve", "process", "save", "final", "done"
    ha_df,              \* the title of each row of CSV_PATH
    p_titles,           \* main's local set of titles found in OUTPUT_PATH
    todo,               \* main's local todo, as the papers it holds in order
    ha_i,               \* the loop's i (start of the batch in todo, from 0)
    ha_row,             \* position of the inner loop in the batch, from 1
    current_results,    \* main's local list, as the papers the results are of
    ha_output,          \* the rows of OUTPUT_PATH
    ha_flushes,         \* number of to_csv calls so far
    ha_queried          \* the papers process_paper was called for, in order

harvardVars == <<ha_pc, ha_df, p_titles, todo, ha_i, ha_row, current_results, ha_output,
                 ha_flushes, ha_queried>>

BATCH_SIZE == 10
SaveThreshold == 20
MaxPapers == 25

\* todo.iloc[i : i + BATCH_SIZE]
Batch == SubSeq(todo, ha_i + 1, Min(Len(todo), ha_i + BATCH_SIZE))

\* save_df.to_csv(OUTPUT_PATH, mode='a', ...) of current_results
AppendResults ==
    ha_output \o [k \in 1..Len(current_results) |->
                    [paper |-> current_results[k], title |-> ha_df[current_results[k]],
                     flush |-> ha_flushes + 1]]

\* CSV_PATH has n papers; the first k were written to OUTPUT_PATH by an
\* earlier run; with dup the last paper has the title of the first
HarvardInit ==
    /\ ha_pc = "load"
    /\ \E n \in 1..MaxPapers, k \in 0..MaxPapers, dup \in BOOLEAN :
        /\ k <= n
        /\ ha_df = [p \in 1..n |-> IF dup /\ p = n THEN 1 ELSE p]
        /\ ha_output = [p \in 1..k |-> [paper |-> 0, title |-> p, flush |-> 0]]
    /\ p_titles = {}
    /\ todo = <<>>
    /\ ha_i = 0
    /\ ha_row = 1
    /\ current_results = <<>>
    /\ ha_flushes = 0
    /\ ha_queried = <<>>

\* read both files and compute todo; return at once when it is empty
HarvardLoad ==
    /\ ha_pc = "load"
    /\ LET titles == {ha_output[k].title : k \in 1..Len(ha_output)}
           rows == SelectSeq([p \in 1..Len(ha_df) |-> p], LAMBDA p : ha_df[p] \notin titles)
       IN /\ p_titles' = titles
          /\ todo' = rows
          /\ ha_pc' = IF rows = <<>> THEN "done" ELSE "resolve"
    /\ UNCHANGED <<ha_df, ha_i, ha_row, current_results, ha_output, ha_flushes, ha_queried>>

\* top of the for loop: the next batch and its resolve_papers_ads call, or
\* the end of the loop
HarvardResolve ==
    /\ ha_pc = "resolve"
    /\ IF ha_i < Len(todo)
       THEN /\ ha_pc' = "process"
            /\ ha_row' = 1
       ELSE /\ ha_pc' = "final"
            /\ UNCHANGED ha_row
    /\ UNCHANGED <<ha_df, p_titles, todo, ha_i, current_results, ha_output, ha_flushes,
                   ha_queried>>

\* one iteration of the inner loop: process_paper and the append of its result
HarvardProcessPaper ==
    /\ ha_pc = "process"
    /\ ha_row <= Len(Batch)
    /\ current_results' = Append(current_results, Batch[ha_row])
    /\ ha_queried' = Append(ha_queried, Batch[ha_row])
    /\ ha_row' = ha_row + 1
    /\ UNCHANGED <<ha_pc, ha_df, p_titles, todo, ha_i, ha_output, ha_flushes>>

\* the mutant of HarvardPeriodicSave: current_results is kept after the save
HarvardPeriodicSaveKeep ==
    /\ ha_pc = "process"
    /\ ha_row > Len(Batch)
    /\ IF Len(current_results) >= SaveThreshold
       THEN /\ ha_output' = AppendResults
            /\ ha_flushes' = ha_flushes + 1
       ELSE UNCHANGED <<ha_output, ha_flushes>>
    /\ ha_i' = ha_i + BATCH_SIZE
    /\ ha_pc' = "resolve"
    /\ UNCHANGED <<ha_df, p_titles, todo, ha_row, ha_queried, current_results>>

\* end of the batch: the periodic save
HarvardPeriodicSave ==
    /\ ha_pc = "process"
    /\ ha_row > Len(Batch)
    /\ IF Len(current_results) >= SaveThreshold
       THEN /\ ha_output' = AppendResults
            /\ ha_flushes' = ha_flushes + 1
            /\ current_results' = <<>>
       ELSE UNCHANGED <<ha_output, ha_flushes, current_results>>
    /\ ha_i' = ha_i + BATCH_SIZE
    /\ ha_pc' = "resolve"
    /\ UNCHANGED <<ha_df, p_titles, todo, ha_row, ha_queried>>

\* after the loop: the final dump
HarvardFinalDump ==
    /\ ha_pc = "final"
    /\ IF current_results # <<>>
       THEN /\ ha_output' = AppendResults
            /\ ha_flushes' = ha_flushes + 1
       ELSE UNCHANGED <<ha_output, ha_flushes>>
    /\ ha_pc' = "done"
    /\ UNCHANGED <<ha_df, p_titles, todo, ha_i, ha_row, current_results, ha_queried>>

HarvardNext ==
    \/ HarvardLoad \/ HarvardResolve \/ HarvardProcessPaper \/ HarvardPeriodicSave
    \/ HarvardFinalDump

(***************************************************************************)
(* predictions/gemini_api_t2.query_gemini_batch: one batch.  An API call   *)
(* gives a response that parses, one that does not, or raises an error; an *)
(* error is its status code (0 when it has none) and which of the words    *)
(* the handler looks for its lower-cased message contains.                 *)
(***************************************************************************)
VARIABLES
    qg_pc,              \* "call" before generate_content, "sleep", "returned"
    retry_count,        \* the argument retry_count of the running call
    qg_calls,           \* generate_content calls made so far
    qg_error,           \* the error the last generate_content call raised
    qg_delay,           \* the argument of the time.sleep that follows it
    qg_waits,           \* the seconds of each time.sleep so far, in order
    qg_return           \* "pending", "BatchResponse" or "None"

geminiVars == <<qg_pc, retry_count, qg_calls, qg_error, qg_delay, qg_waits, qg_return>>

MAX_RETRIES == 5
RETRY_DELAY == 60
SERVICE_UNAVAILABLE_BASE_DELAY == 30
MAX_SERVICE_UNAVAILABLE_DELAY == 300

ErrorCodes == {0, 400, 404, 429, 500, 502, 503, 504}
\* the message contains none of the words, or contains this one
MessageWords == {"none", "quota", "rate", "unavailable", "overloaded"}
Errors == [code : ErrorCodes, word : MessageWords]
NoError == [code |-> 0, word |-> "ok"]

\* the first if of the except clause
IsRateLimit(e) == e.word \in {"quota", "rate"} \/ e.code = 429
\* the first elif
IsUnavailable(e) == e.code = 503 \/ e.word \in {"unavailable", "overloaded"}
\* the second elif
IsServerError(e) == e.code \in {500, 502, 504}

\* delay = min(SERVICE_UNAVAILABLE_BASE_DELAY * (2 ** retry_count), ...)
Backoff(count) ==
    Min(SERVICE_UNAVAILABLE_BASE_DELAY * (2 ^ count), MAX_SERVICE_UNAVAILABLE_DELAY)

\* the seconds slept before the retry of error e, 0 when it is not retried
RetryDelay(e, count) ==
    IF IsRateLimit(e) THEN RETRY_DELAY
    ELSE IF IsUnavailable(e) \/ IsServerError(e) THEN Backoff(count)
    ELSE 0

GeminiInit ==
    /\ qg_pc = "call"
    /\ retry_count = 0
    /\ qg_calls = 0
    /\ qg_error = NoError
    /\ qg_delay = 0
    /\ qg_waits = <<>>
    /\ qg_return = "pending"

\* generate_content returns and the response parses or does not
GeminiResponse ==
    /\ qg_pc = "call"
    /\ qg_calls' = qg_calls + 1
    /\ qg_error' = NoError
    /\ \E parsed \in BOOLEAN : qg_return' = IF parsed THEN "BatchResponse" ELSE "None"
    /\ qg_pc' = "returned"
    /\ UNCHANGED <<retry_count, qg_delay, qg_waits>>

\* generate_content raises: the except clause up to its sleep or return
GeminiError ==
    /\ qg_pc = "call"
    /\ qg_calls' = qg_calls + 1
    /\ \E e \in Errors :
        /\ qg_error' = e
        /\ IF RetryDelay(e, retry_count) > 0 /\ retry_count < MAX_RETRIES
           THEN /\ qg_delay' = RetryDelay(e, retry_count)
                /\ qg_pc' = "sleep"
                /\ UNCHANGED qg_return
           ELSE /\ qg_return' = "None"
                /\ qg_pc' = "returned"
                /\ UNCHANGED qg_delay
    /\ UNCHANGED <<retry_count, qg_waits>>

\* time.sleep(...); return query_gemini_batch(papers_data, retry_count + 1)
GeminiSleepAndRetry ==
    /\ qg_pc = "sleep"
    /\ qg_waits' = Append(qg_waits, qg_delay)
    /\ retry_count' = retry_count + 1
    /\ qg_pc' = "call"
    /\ UNCHANGED <<qg_calls, qg_error, qg_delay, qg_return>>

query_gemini_batch == GeminiResponse \/ GeminiError \/ GeminiSleepAndRetry

(***************************************************************************)
(* predictions/gemini_api_t2.process_batch_results: one call.  batch_data  *)
(* is the list of papers sent, each with its original_index (here its      *)
(* position in the list) and its arxiv_id; the response is the list of the *)
(* arxiv_id of each paper the model returned.                              *)
(***************************************************************************)
VARIABLES
    pb_pc,              \* "start", "loop" or "returned"
    batch_data,         \* the argument batch_data
    response_papers,    \* batch_response.papers, as their arxiv_id
    pb_k,               \* position of the for loop in response_papers, from 1
    saved_count,        \* the local counter
    pb_csv,             \* the rows appended to output_csv, in order
    pb_return           \* the value returned, -1 before the return

batchVars == <<pb_pc, batch_data, response_papers, pb_k, saved_count, pb_csv, pb_return>>

MaxBatch == 2
MaxResponsePapers == 3

SentIds == {"2501.00001", "2501.00002"}
\* the model can also return an id that was never sent
ReturnedIds == SentIds \cup {"2501.99999"}

\* papers_map = {p['arxiv_id']: p for p in batch_data}: the last paper
\* with an id is the one the dict keeps
InPapersMap(arxiv_id) == \E k \in 1..Len(batch_data) : batch_data[k].arxiv_id = arxiv_id
PapersMapGet(arxiv_id) ==
    LET ks == {k \in 1..Len(batch_data) : batch_data[k].arxiv_id = arxiv_id}
    IN batch_data[CHOOSE k \in ks : \A j \in ks : j <= k]

BatchInit ==
    /\ pb_pc = "start"
    /\ \E n \in 1..MaxBatch : \E ids \in [1..n -> SentIds] :
        batch_data = [k \in 1..n |-> [original_index |-> k, arxiv_id |-> ids[k]]]
    /\ response_papers \in SeqsUpTo(ReturnedIds, MaxResponsePapers)
    /\ pb_k = 1
    /\ saved_count = 0
    /\ pb_csv = <<>>
    /\ pb_return = -1

\* the guard on an empty response
BatchStart ==
    /\ pb_pc = "start"
    /\ IF response_papers = <<>>
       THEN /\ pb_return' = 0
            /\ pb_pc' = "returned"
       ELSE /\ pb_pc' = "loop"
            /\ UNCHANGED pb_return
    /\ UNCHANGED <<batch_data, response_papers, pb_k, saved_count, pb_csv>>

\* one iteration of "for paper in batch_response.papers"
BatchPaper ==
    /\ pb_pc = "loop"
    /\ pb_k <= Len(response_papers)
    /\ LET arxiv_id == response_papers[pb_k]
       IN IF ~InPapersMap(arxiv_id)
          THEN UNCHANGED <<saved_count, pb_csv>>
          ELSE /\ pb_csv' = Append(pb_csv,
                        [original_index |-> PapersMapGet(arxiv_id).original_index,
                         arxiv_id |-> arxiv_id])
               /\ saved_count' = saved_count + 1
    /\ pb_k' = pb_k + 1
    /\ UNCHANGED <<pb_pc, batch_data, response_papers, pb_return>>

\* return saved_count
BatchReturn ==
    /\ pb_pc = "loop"
    /\ pb_k > Len(response_papers)
    /\ pb_return' = saved_count
    /\ pb_pc' = "returned"
    /\ UNCHANGED <<batch_data, response_papers, pb_k, saved_count, pb_csv>>

process_batch_results == BatchStart \/ BatchPaper \/ BatchReturn

(***************************************************************************)
(* finding_author_rem_11.extract_balanced_content.  The text is a sequence *)
(* of characters, of which "T" stands for one occurrence of start_token,   *)
(* " " for a whitespace character and "x" for any other character that is  *)
(* neither a brace nor a bracket.  Positions count from 1.                 *)
(***************************************************************************)
VARIABLES
    ebc_pc,             \* "call" before the call, "done" after it
    ebc_text,           \* the argument text
    ebc_result          \* the value returned: None, or the content

ebcVars == <<ebc_pc, ebc_text, ebc_result>>

MaxTextLen == 5

TextChars == {"T", "{", "}", "[", "]", " ", "x"}
ReturnNone == [none |-> TRUE, content |-> <<>>]
ReturnText(s) == [none |-> FALSE, content |-> s]

\* \s* from position i: the first position at or after i that holds no
\* whitespace (Len(text) + 1 when there is none)
RECURSIVE SkipWhitespace(_, _)
SkipWhitespace(text, i) ==
    IF i <= Len(text) /\ text[i] = " " THEN SkipWhitespace(text, i + 1) ELSE i

\* [^\]]*\] from position i: the position of the first "]" at or after i,
\* 0 when there is none
RECURSIVE FirstClosingBracket(_, _)
FirstClosingBracket(text, i) ==
    IF i > Len(text) THEN 0
    ELSE IF text[i] = "]" THEN i
    ELSE FirstClosingBracket(text, i + 1)

\* the pattern tried at position p: the position of the "{" that ends the
\* match, 0 when the pattern does not match there
MatchAt(text, p) ==
    IF text[p] # "T" THEN 0
    ELSE LET q == SkipWhitespace(text, p + 1)
         IN IF q > Len(text) THEN 0
            ELSE IF text[q] = "{" THEN q
            ELSE IF text[q] = "[" THEN
                LET r == FirstClosingBracket(text, q + 1)
                    o == SkipWhitespace(text, r + 1)
                IN IF r # 0 /\ o <= Len(text) /\ text[o] = "{" THEN o ELSE 0
            ELSE 0

\* re.search(pattern, text) from position p on: the "{" of the leftmost match
RECURSIVE Search(_, _)
Search(text, p) ==
    IF p > Len(text) THEN 0
    ELSE IF MatchAt(text, p) # 0 THEN MatchAt(text, p)
    ELSE Search(text, p + 1)

\* the mutant of ScanBraces: the first "}" ends the content
ScanToFirstClose(text, start_idx, i, stack) ==
    IF \E c \in i..Len(text) : text[c] = "}"
    THEN ReturnText(SubSeq(text, start_idx,
                (CHOOSE c \in i..Len(text) :
                    text[c] = "}" /\ \A d \in i..(c - 1) : text[d] # "}") - 1))
    ELSE ReturnNone

\* the for loop: returns at the "}" that brings stack to 0
RECURSIVE ScanBraces(_, _, _, _)
ScanBraces(text, start_idx, i, stack) ==
    IF i > Len(text) THEN ReturnNone
    ELSE IF text[i] = "{" THEN ScanBraces(text, start_idx, i + 1, stack + 1)
    ELSE IF text[i] = "}" THEN
        IF stack - 1 = 0 THEN ReturnText(SubSeq(text, start_idx, i - 1))
        ELSE ScanBraces(text, start_idx, i + 1, stack - 1)
    ELSE ScanBraces(text, start_idx, i + 1, stack)

extract_balanced_content(text) ==
    IF text = <<>> THEN ReturnNone
    ELSE LET open == Search(text, 1)
         IN IF open = 0 THEN ReturnNone
            ELSE ScanBraces(text, open + 1, open + 1, 1)

EbcInit ==
    /\ ebc_pc = "call"
    /\ ebc_text \in SeqsUpTo(TextChars, MaxTextLen)
    /\ ebc_result = ReturnNone

CallExtract ==
    /\ ebc_pc = "call"
    /\ ebc_result' = extract_balanced_content(ebc_text)
    /\ ebc_pc' = "done"
    /\ UNCHANGED ebc_text

(***************************************************************************)
(* data_labelling.py: the Streamlit script is run from top to bottom each  *)
(* time the page is opened or a widget is used; st.session_state and the   *)
(* query parameters of the URL outlive a run.  The query parameter index   *)
(* is absent, a text int() accepts (with its value) or a text it rejects.  *)
(***************************************************************************)
VARIABLES
    ui_pc,              \* "script" while a run is due, "shown" or "raised" after it
    ui_len,             \* len(df)
    current_idx,        \* st.session_state.current_idx
    query_kind,         \* "absent", "int" or "text"
    query_value         \* int(query_params["index"]) when query_kind is "int"

uiVars == <<ui_pc, ui_len, current_idx, query_kind, query_value>>

MaxDfLen == 3

QueryInts == (0 - MaxDfLen - 1)..(MaxDfLen + 1)

\* df.iloc[idx] is defined
IlocDefined(idx) == idx >= 0 - ui_len /\ idx <= ui_len - 1

\* the number_input of the navigation bar accepts its value
NumberInputShown == current_idx >= 0 /\ current_idx <= ui_len - 1

UiInit ==
    /\ ui_pc = "script"
    /\ ui_len \in 1..MaxDfLen
    /\ current_idx = 0
    /\ query_kind = "absent"
    /\ query_value = 0

\* one run of the script down to the paper lookup
UiRun ==
    /\ ui_pc = "script"
    /\ current_idx' = IF query_kind = "int" THEN query_value ELSE current_idx
    /\ ui_pc' = IF IlocDefined(current_idx') THEN "shown" ELSE "raised"
    /\ UNCHANGED <<ui_len, query_kind, query_value>>

\* the user opens the page with another URL
UiOpenUrl ==
    /\ ui_pc \in {"shown", "raised"}
    /\ \/ query_kind' = "absent" /\ query_value' = 0
       \/ query_kind' = "text" /\ query_value' = 0
       \/ query_kind' = "int" /\ query_value' \in QueryInts
    /\ ui_pc' = "script"
    /\ UNCHANGED <<ui_len, current_idx>>

\* the Done button: save, then move on unless this is the last paper
UiDone ==
    /\ ui_pc = "shown"
    /\ IF current_idx < ui_len - 1
       THEN /\ current_idx' = current_idx + 1
            /\ ui_pc' = "script"
       ELSE UNCHANGED <<current_idx, ui_pc>>
    /\ UNCHANGED <<ui_len, query_kind, query_value>>

\* the Previous button, disabled on the first paper
UiPrevious ==
    /\ ui_pc = "shown"
    /\ current_idx # 0
    /\ current_idx' = current_idx - 1
    /\ ui_pc' = "script"
    /\ UNCHANGED <<ui_len, query_kind, query_value>>

\* the Next button, disabled on the last paper
UiNextPaper ==
    /\ ui_pc = "shown"
    /\ current_idx # ui_len - 1
    /\ current_idx' = current_idx + 1
    /\ ui_pc' = "script"
    /\ UNCHANGED <<ui_len, query_kind, query_value>>

\* the Jump to Paper # input, which takes 0 .. len(df) - 1
UiJump ==
    /\ ui_pc = "shown"
    /\ NumberInputShown
    /\ \E jump_idx \in 0..(ui_len - 1) :
        /\ jump_idx # current_idx
        /\ current_idx' = jump_idx
    /\ ui_pc' = "script"
    /\ UNCHANGED <<ui_len, query_kind, query_value>>

UiNext == UiRun \/ UiOpenUrl \/ UiDone \/ UiPrevious \/ UiNextPaper \/ UiJump

(***************************************************************************)
(* app.py: the affiliation editor.  The affiliations of the paper shown    *)
(* are a list of None and strings; a string is the sequence of its         *)
(* characters.  The text area is pre-filled from the list, and Submit      *)
(* turns the text of the text area back into a list.                       *)
(***************************************************************************)
VARIABLES
    app_pc,             \* "render" before the editor is drawn, "edit", "saved"
    app_affiliations,   \* affiliations = parse_list(row['affiliations'])
    default_aff_str,    \* the text the text area is pre-filled with
    new_affs_list       \* the list whose str() Submit stores in the cell

appVars == <<app_pc, app_affiliations, default_aff_str, new_affs_list>>

MaxAffLen == 2
MaxListLen == 2

AffChars == {"u", " ", ":"}
AffEntries == {PyNone} \cup SeqsUpTo(AffChars, MaxAffLen)

\* " : ".join([str(a) if a is not None else "" for a in affiliations])
RECURSIVE JoinWithColon(_)
JoinWithColon(list) ==
    IF list = <<>> THEN <<>>
    ELSE LET first == IF list[1] = PyNone THEN <<>> ELSE list[1]
         IN IF Len(list) = 1 THEN first
            ELSE first \o <<" ", ":", " ">> \o JoinWithColon(Tail(list))

\* s.split(":")
RECURSIVE SplitOnColon(_)
SplitOnColon(s) ==
    IF \A k \in 1..Len(s) : s[k] # ":" THEN <<s>>
    ELSE LET c == CHOOSE k \in 1..Len(s) : s[k] = ":" /\ \A j \in 1..(k - 1) : s[j] # ":"
         IN <<SubSeq(s, 1, c - 1)>> \o SplitOnColon(SubSeq(s, c + 1, Len(s)))

\* [s.strip() for s in new_affs_input.split(":")]
ParseInput(new_affs_input) ==
    LET parts == SplitOnColon(new_affs_input)
    IN [k \in 1..Len(parts) |-> Strip(parts[k])]

AppInit ==
    /\ app_pc = "render"
    /\ app_affiliations \in SeqsUpTo(AffEntries, MaxListLen)
    /\ default_aff_str = <<>>
    /\ new_affs_list = <<>>

\* the script draws the editor with the pre-filled text area
AppRender ==
    /\ app_pc = "render"
    /\ default_aff_str' = JoinWithColon(app_affiliations)
    /\ app_pc' = "edit"
    /\ UNCHANGED <<app_affiliations, new_affs_list>>

\* Submit and Save to CSV, the text area still holding the pre-filled text
AppSubmit ==
    /\ app_pc = "edit"
    /\ new_affs_list' = ParseInput(default_aff_str)
    /\ app_pc' = "saved"
    /\ UNCHANGED <<app_affiliations, default_aff_str>>

AppNext == AppRender \/ AppSubmit

(***************************************************************************)
(* Idle values of each script's variables while another script runs.       *)
(***************************************************************************)
DispatchIdle ==
    /\ heuristic_result = [h \in HeuristicNames |-> EmptyDict]
    /\ dispatch_pc = "idle"
    /\ res = EmptyDict
    /\ consulted = <<>>
    /\ dispatch_return = NoneVal

MatchIdle ==
    /\ name1 = <<>>
    /\ name2 = <<>>
    /\ match_pc = "idle"
    /\ match_result = FALSE

FillIdle ==
    /\ csv_in = <<>>
    /\ df = <<>>
    /\ fill_pc = "idle"
    /\ loop_i = 0
    /\ affiliations = <<>>
    /\ changed = FALSE
    /\ output_csv = NoneVal
    /\ csv_writes = 0

CountriesIdle ==
    /\ ac_df = <<>>
    /\ work_queue = <<>>
    /\ dl_pc = "idle"
    /\ dl_i = 0
    /\ pr_pc = "idle"
    /\ item = Sentinel
    /\ processed_count = 0
    /\ ac_saves = 0
    /\ ac_main_pc = "idle"
    /\ now = 0
    /\ request_times = <<>>
    /\ enqueued = <<>>
    /\ processed = <<>>

ScanIdle ==
    /\ found_matches = <<>>
    /\ lines_since_last_match = 0
    /\ has_found_any = FALSE
    /\ scan_pc = "idle"
    /\ stopped_by_buffer = FALSE
    /\ lines_scanned = 0
    /\ last_match_line = 0
    /\ match_lines = 0
    /\ scanned_matches = <<>>

ExtractIdle ==
    /\ ex_main_pc = "idle"
    /\ title_is_str = <<>>
    /\ worker_pc = <<>>
    /\ is_success = <<>>
    /\ write_lock = 0
    /\ success_count = 0
    /\ fail_count = 0
    /\ loaded_count = <<>>
    /\ counted = <<>>
    /\ outfile = <<>>
    /\ summary_total = -1

AdsIdle ==
    /\ ads_pc = "idle"
    /\ ads_i = 0
    /\ ads_depth = 0
    /\ ads_requests = 0
    /\ ads_waited = 0
    /\ ads_results = <<>>

FaIdle ==
    /\ fa_pc = "idle"
    /\ fa_i = 0
    /\ first_match_line = -1
    /\ fa_len = 0
    /\ fa_comment_keyword = FALSE
    /\ fa_none = FALSE
    /\ extracted_section = <<>>

DownloadIdle ==
    /\ arxiv_ids = <<>>
    /\ da_pc = "idle"
    /\ da_i = 0
    /\ start = -1
    /\ da_now = 0
    /\ output_dir = {}
    /\ da_errors = 0
    /\ da_run = 0
    /\ da_request_times = <<>>
    /\ da_skipped = {}

AdsRequestIdle ==
    /\ ar_pc = "idle"
    /\ params = "q1"
    /\ rate_limited_left = 0
    /\ ar_log = <<>>
    /\ ar_waits = 0
    /\ ar_return = "pending"

HarvardIdle ==
    /\ ha_pc = "idle"
    /\ ha_df = <<>>
    /\ p_titles = {}
    /\ todo = <<>>
    /\ ha_i = 0
    /\ ha_row = 0
    /\ current_results = <<>>
    /\ ha_output = <<>>
    /\ ha_flushes = 0
    /\ ha_queried = <<>>

GeminiIdle ==
    /\ qg_pc = "idle"
    /\ retry_count = 0
    /\ qg_calls = 0
    /\ qg_error = NoError
    /\ qg_delay = 0
    /\ qg_waits = <<>>
    /\ qg_return = "pending"

BatchIdle ==
    /\ pb_pc = "idle"
    /\ batch_data = <<>>
    /\ response_papers = <<>>
    /\ pb_k = 0
    /\ saved_count = 0
    /\ pb_csv = <<>>
    /\ pb_return = -1

EbcIdle ==
    /\ ebc_pc = "idle"
    /\ ebc_text = <<>>
    /\ ebc_result = ReturnNone

UiIdle ==
    /\ ui_pc = "idle"
    /\ ui_len = 0
    /\ current_idx = 0
    /\ query_kind = "absent"
    /\ query_value = 0

AppIdle ==
    /\ app_pc = "idle"
    /\ app_affiliations = <<>>
    /\ default_aff_str = <<>>
    /\ new_affs_list = <<>>

vars ==
    <<dispatchVars, matchVars, fillVars, countryVars, scanVars, extractVars, adsVars,
      faVars, downloadVars, adsRequestVars, harvardVars, geminiVars, batchVars,
      ebcVars, uiVars, appVars>>

\* finding_author_rem_11.parse_latex_section on one section
InitDispatch ==
    /\ DispatchInit
    /\ MatchIdle
    /\ FillIdle
    /\ CountriesIdle
    /\ ScanIdle
    /\ ExtractIdle
    /\ AdsIdle
    /\ FaIdle
    /\ DownloadIdle
    /\ AdsRequestIdle
    /\ HarvardIdle
    /\ GeminiIdle
    /\ BatchIdle
    /\ EbcIdle
    /\ UiIdle
    /\ AppIdle
NextDispatch ==
    /\ parse_latex_section
    /\ UNCHANGED
        <<matchVars, fillVars, countryVars, scanVars, extractVars, adsVars, faVars,
          downloadVars, adsRequestVars, harvardVars, geminiVars, batchVars, ebcVars,
          uiVars, appVars>>
SpecDispatch == InitDispatch /\ [][NextDispatch]_vars

\* finding_author_rem_11.names_match on one pair of names
InitMatch ==
    /\ MatchInit
    /\ DispatchIdle
    /\ FillIdle
    /\ CountriesIdle
    /\ ScanIdle
    /\ ExtractIdle
    /\ AdsIdle
    /\ FaIdle
    /\ DownloadIdle
    /\ AdsRequestIdle
    /\ HarvardIdle
    /\ GeminiIdle
    /\ BatchIdle
    /\ EbcIdle
    /\ UiIdle
    /\ AppIdle
NextMatch ==
    /\ CallNamesMatch
    /\ UNCHANGED
        <<dispatchVars, fillVars, countryVars, scanVars, extractVars, adsVars, faVars,
          downloadVars, adsRequestVars, harvardVars, geminiVars, batchVars, ebcVars,
          uiVars, appVars>>
SpecMatch == InitMatch /\ [][NextMatch]_vars

\* finding_author_rem_11.main on a CSV of one paper
InitFillRow ==
    /\ FillRowInit
    /\ DispatchIdle
    /\ MatchIdle
    /\ CountriesIdle
    /\ ScanIdle
    /\ ExtractIdle
    /\ AdsIdle
    /\ FaIdle
    /\ DownloadIdle
    /\ AdsRequestIdle
    /\ HarvardIdle
    /\ GeminiIdle
    /\ BatchIdle
    /\ EbcIdle
    /\ UiIdle
    /\ AppIdle
NextFill ==
    /\ FillerNext
    /\ UNCHANGED
        <<dispatchVars, matchVars, countryVars, scanVars, extractVars, adsVars, faVars,
          downloadVars, adsRequestVars, harvardVars, geminiVars, batchVars, ebcVars,
          uiVars, appVars>>
SpecFillRow == InitFillRow /\ [][NextFill]_vars

\* finding_author_rem_11.main on a CSV of NumRows papers
InitFillRun ==
    /\ FillRunInit
    /\ DispatchIdle
    /\ MatchIdle
    /\ CountriesIdle
    /\ ScanIdle
    /\ ExtractIdle
    /\ AdsIdle
    /\ FaIdle
    /\ DownloadIdle
    /\ AdsRequestIdle
    /\ HarvardIdle
    /\ GeminiIdle
    /\ BatchIdle
    /\ EbcIdle
    /\ UiIdle
    /\ AppIdle
SpecFillRun == InitFillRun /\ [][NextFill]_vars

\* adding_countries.py: both threads and the main thread
InitCountries ==
    /\ CountriesInit
    /\ DispatchIdle
    /\ MatchIdle
    /\ FillIdle
    /\ ScanIdle
    /\ ExtractIdle
    /\ AdsIdle
    /\ FaIdle
    /\ DownloadIdle
    /\ AdsRequestIdle
    /\ HarvardIdle
    /\ GeminiIdle
    /\ BatchIdle
    /\ EbcIdle
    /\ UiIdle
    /\ AppIdle
NextCountries ==
    /\ CountriesNext
    /\ UNCHANGED
        <<dispatchVars, matchVars, fillVars, scanVars, extractVars, adsVars, faVars,
          downloadVars, adsRequestVars, harvardVars, geminiVars, batchVars, ebcVars,
          uiVars, appVars>>
SpecCountries == InitCountries /\ [][NextCountries]_vars

\* adding_countries.process_lines_with_buffer on one file
InitScan ==
    /\ ScanInit
    /\ DispatchIdle
    /\ MatchIdle
    /\ FillIdle
    /\ CountriesIdle
    /\ ExtractIdle
    /\ AdsIdle
    /\ FaIdle
    /\ DownloadIdle
    /\ AdsRequestIdle
    /\ HarvardIdle
    /\ GeminiIdle
    /\ BatchIdle
    /\ EbcIdle
    /\ UiIdle
    /\ AppIdle
NextScan ==
    /\ ScanNext
    /\ UNCHANGED
        <<dispatchVars, matchVars, fillVars, countryVars, extractVars, adsVars, faVars,
          downloadVars, adsRequestVars, harvardVars, geminiVars, batchVars, ebcVars,
          uiVars, appVars>>
SpecScan == InitScan /\ [][NextScan]_vars

\* extract_latex_affiliations.py: main and its workers
InitExtract ==
    /\ ExtractInit
    /\ DispatchIdle
    /\ MatchIdle
    /\ FillIdle
    /\ CountriesIdle
    /\ ScanIdle
    /\ AdsIdle
    /\ FaIdle
    /\ DownloadIdle
    /\ AdsRequestIdle
    /\ HarvardIdle
    /\ GeminiIdle
    /\ BatchIdle
    /\ EbcIdle
    /\ UiIdle
    /\ AppIdle
NextExtract ==
    /\ ExtractNext
    /\ UNCHANGED
        <<dispatchVars, matchVars, fillVars, countryVars, scanVars, adsVars, faVars,
          downloadVars, adsRequestVars, harvardVars, geminiVars, batchVars, ebcVars,
          uiVars, appVars>>
SpecExtract == InitExtract /\ [][NextExtract]_vars

\* ads_affils.py: main and the lookups it makes
InitAds ==
    /\ AdsInit
    /\ DispatchIdle
    /\ MatchIdle
    /\ FillIdle
    /\ CountriesIdle
    /\ ScanIdle
    /\ ExtractIdle
    /\ FaIdle
    /\ DownloadIdle
    /\ AdsRequestIdle
    /\ HarvardIdle
    /\ GeminiIdle
    /\ BatchIdle
    /\ EbcIdle
    /\ UiIdle
    /\ AppIdle
NextAds ==
    /\ AdsNext
    /\ UNCHANGED
        <<dispatchVars, matchVars, fillVars, countryVars, scanVars, extractVars,
          faVars, downloadVars, adsRequestVars, harvardVars, geminiVars, batchVars,
          ebcVars, uiVars, appVars>>
SpecAds == InitAds /\ [][NextAds]_vars

\* extract_latex_affiliations.find_affiliation_section on one file
InitFa ==
    /\ FaInit
    /\ DispatchIdle
    /\ MatchIdle
    /\ FillIdle
    /\ CountriesIdle
    /\ ScanIdle
    /\ ExtractIdle
    /\ AdsIdle
    /\ DownloadIdle
    /\ AdsRequestIdle
    /\ HarvardIdle
    /\ GeminiIdle
    /\ BatchIdle
    /\ EbcIdle
    /\ UiIdle
    /\ AppIdle
NextFa ==
    /\ find_affiliation_section
    /\ UNCHANGED
        <<dispatchVars, matchVars, fillVars, countryVars, scanVars, extractVars,
          adsVars, downloadVars, adsRequestVars, harvardVars, geminiVars, batchVars,
          ebcVars, uiVars, appVars>>
SpecFa == InitFa /\ [][NextFa]_vars

\* download_arxiv.py: the download loop, stopped and started again
InitDownload ==
    /\ DownloadInit
    /\ DispatchIdle
    /\ MatchIdle
    /\ FillIdle
    /\ CountriesIdle
    /\ ScanIdle
    /\ ExtractIdle
    /\ AdsIdle
    /\ FaIdle
    /\ AdsRequestIdle
    /\ HarvardIdle
    /\ GeminiIdle
    /\ BatchIdle
    /\ EbcIdle
    /\ UiIdle
    /\ AppIdle
NextDownload ==
    /\ DownloadNext
    /\ UNCHANGED
        <<dispatchVars, matchVars, fillVars, countryVars, scanVars, extractVars,
          adsVars, faVars, adsRequestVars, harvardVars, geminiVars, batchVars, ebcVars,
          uiVars, appVars>>
SpecDownload == InitDownload /\ [][NextDownload]_vars

\* harvard_ads.ads_request: one call; a thread that can run does run
InitAdsRequest ==
    /\ AdsRequestInit
    /\ DispatchIdle
    /\ MatchIdle
    /\ FillIdle
    /\ CountriesIdle
    /\ ScanIdle
    /\ ExtractIdle
    /\ AdsIdle
    /\ FaIdle
    /\ DownloadIdle
    /\ HarvardIdle
    /\ GeminiIdle
    /\ BatchIdle
    /\ EbcIdle
    /\ UiIdle
    /\ AppIdle
NextAdsRequest ==
    /\ ads_request
    /\ UNCHANGED
        <<dispatchVars, matchVars, fillVars, countryVars, scanVars, extractVars,
          adsVars, faVars, downloadVars, harvardVars, geminiVars, batchVars, ebcVars,
          uiVars, appVars>>
SpecAdsRequest == InitAdsRequest /\ [][NextAdsRequest]_vars /\ WF_vars(NextAdsRequest)

\* harvard_ads.main on one CSV_PATH and OUTPUT_PATH
InitHarvard ==
    /\ HarvardInit
    /\ DispatchIdle
    /\ MatchIdle
    /\ FillIdle
    /\ CountriesIdle
    /\ ScanIdle
    /\ ExtractIdle
    /\ AdsIdle
    /\ FaIdle
    /\ DownloadIdle
    /\ AdsRequestIdle
    /\ GeminiIdle
    /\ BatchIdle
    /\ EbcIdle
    /\ UiIdle
    /\ AppIdle
NextHarvard ==
    /\ HarvardNext
    /\ UNCHANGED
        <<dispatchVars, matchVars, fillVars, countryVars, scanVars, extractVars,
          adsVars, faVars, downloadVars, adsRequestVars, geminiVars, batchVars,
          ebcVars, uiVars, appVars>>
SpecHarvard == InitHarvard /\ [][NextHarvard]_vars

\* gemini_api_t2.query_gemini_batch on one batch
InitGemini ==
    /\ GeminiInit
    /\ DispatchIdle
    /\ MatchIdle
    /\ FillIdle
    /\ CountriesIdle
    /\ ScanIdle
    /\ ExtractIdle
    /\ AdsIdle
    /\ FaIdle
    /\ DownloadIdle
    /\ AdsRequestIdle
    /\ HarvardIdle
    /\ BatchIdle
    /\ EbcIdle
    /\ UiIdle
    /\ AppIdle
NextGemini ==
    /\ query_gemini_batch
    /\ UNCHANGED
        <<dispatchVars, matchVars, fillVars, countryVars, scanVars, extractVars,
          adsVars, faVars, downloadVars, adsRequestVars, harvardVars, batchVars,
          ebcVars, uiVars, appVars>>
SpecGemini == InitGemini /\ [][NextGemini]_vars

\* gemini_api_t2.process_batch_results on one response
InitBatch ==
    /\ BatchInit
    /\ DispatchIdle
    /\ MatchIdle
    /\ FillIdle
    /\ CountriesIdle
    /\ ScanIdle
    /\ ExtractIdle
    /\ AdsIdle
    /\ FaIdle
    /\ DownloadIdle
    /\ AdsRequestIdle
    /\ HarvardIdle
    /\ GeminiIdle
    /\ EbcIdle
    /\ UiIdle
    /\ AppIdle
NextBatch ==
    /\ process_batch_results
    /\ UNCHANGED
        <<dispatchVars, matchVars, fillVars, countryVars, scanVars, extractVars,
          adsVars, faVars, downloadVars, adsRequestVars, harvardVars, geminiVars,
          ebcVars, uiVars, appVars>>
SpecBatch == InitBatch /\ [][NextBatch]_vars

\* finding_author_rem_11.extract_balanced_content on one text
InitEbc ==
    /\ EbcInit
    /\ DispatchIdle
    /\ MatchIdle
    /\ FillIdle
    /\ CountriesIdle
    /\ ScanIdle
    /\ ExtractIdle
    /\ AdsIdle
    /\ FaIdle
    /\ DownloadIdle
    /\ AdsRequestIdle
    /\ HarvardIdle
    /\ GeminiIdle
    /\ BatchIdle
    /\ UiIdle
    /\ AppIdle
NextEbc ==
    /\ CallExtract
    /\ UNCHANGED
        <<dispatchVars, matchVars, fillVars, countryVars, scanVars, extractVars,
          adsVars, faVars, downloadVars, adsRequestVars, harvardVars, geminiVars,
          batchVars, uiVars, appVars>>
SpecEbc == InitEbc /\ [][NextEbc]_vars

\* data_labelling.py: the page and its navigation
InitUi ==
    /\ UiInit
    /\ DispatchIdle
    /\ MatchIdle
    /\ FillIdle
    /\ CountriesIdle
    /\ ScanIdle
    /\ ExtractIdle
    /\ AdsIdle
    /\ FaIdle
    /\ DownloadIdle
    /\ AdsRequestIdle
    /\ HarvardIdle
    /\ GeminiIdle
    /\ BatchIdle
    /\ EbcIdle
    /\ AppIdle
NextUi ==
    /\ UiNext
    /\ UNCHANGED
        <<dispatchVars, matchVars, fillVars, countryVars, scanVars, extractVars,
          adsVars, faVars, downloadVars, adsRequestVars, harvardVars, geminiVars,
          batchVars, ebcVars, appVars>>
SpecUi == InitUi /\ [][NextUi]_vars

\* app.py: the affiliation editor of one paper
InitApp ==
    /\ AppInit
    /\ DispatchIdle
    /\ MatchIdle
    /\ FillIdle
    /\ CountriesIdle
    /\ ScanIdle
    /\ ExtractIdle
    /\ AdsIdle
    /\ FaIdle
    /\ DownloadIdle
    /\ AdsRequestIdle
    /\ HarvardIdle
    /\ GeminiIdle
    /\ BatchIdle
    /\ EbcIdle
    /\ UiIdle
NextApp ==
    /\ AppNext
    /\ UNCHANGED
        <<dispatchVars, matchVars, fillVars, countryVars, scanVars, extractVars,
          adsVars, faVars, downloadVars, adsRequestVars, harvardVars, geminiVars,
          batchVars, ebcVars, uiVars>>
SpecApp == InitApp /\ [][NextApp]_vars

(***************************************************************************)
(* C1: parse_latex_section returns the mapping of the first heuristic, in  *)
(* the order parbox, MNRAS, altaffil, elsarticle, robust mapping, whose    *)
(* mapping is not empty; the heuristics after it are not called; and it    *)
(* returns the empty mapping exactly when every heuristic returns the      *)
(* empty mapping.                                                          *)
(***************************************************************************)
ClaimedOrder == <<"parbox", "mnras", "altaffil", "elsarticle", "robust">>

NonEmptyAt == {i \in 1..Len(ClaimedOrder) : heuristic_result[ClaimedOrder[i]] # EmptyDict}

C1_FirstNonEmptyWins ==
    dispatch_pc = "done" =>
        /\ NonEmptyAt # {} =>
             LET f == CHOOSE i \in NonEmptyAt : \A j \in NonEmptyAt : i <= j
             IN  /\ dispatch_return = heuristic_result[ClaimedOrder[f]]
                 /\ consulted = SubSeq(ClaimedOrder, 1, f)
        /\ NonEmptyAt = {} => consulted = ClaimedOrder
        /\ (dispatch_return = EmptyDict) <=> (NonEmptyAt = {})

\* a later heuristic's mapping is returned although an earlier one differs from it
C1_Witness ==
    /\ dispatch_pc = "done"
    /\ heuristic_result["parbox"] = EmptyDict
    /\ heuristic_result["mnras"] = EmptyDict
    /\ heuristic_result["altaffil"] # EmptyDict
    /\ heuristic_result["elsarticle"] # EmptyDict
    /\ heuristic_result["elsarticle"] # heuristic_result["altaffil"]
    /\ dispatch_return = heuristic_result["altaffil"]
    /\ Len(consulted) = 3

(***************************************************************************)
(* C2: names_match is True only if the normalized names are identical or   *)
(* their last tokens are equal; for names that are not identical and have  *)
(* two or more tokens each, it is True exactly when the last tokens are    *)
(* equal and the first letters of the other tokens have a letter in        *)
(* common; when one of them has a single token, equal last tokens suffice; *)
(* and it is False when an argument is the empty string.                   *)
(***************************************************************************)
LastToken(p) == p[Len(p)]
FirstLettersOfOthers(p) == {p[i][1] : i \in 1..(Len(p) - 1)}
SameLastToken(p, q) == p # <<>> /\ q # <<>> /\ LastToken(p) = LastToken(q)

C2_NamesMatchRule ==
    match_pc = "done" =>
        LET n1 == normalize_name(name1)
            n2 == normalize_name(name2)
            p == Split(n1)
            q == Split(n2)
        IN  /\ match_result => (n1 = n2 \/ SameLastToken(p, q))
            /\ (n1 # n2 /\ Len(p) >= 2 /\ Len(q) >= 2) =>
                  (match_result <=>
                     /\ SameLastToken(p, q)
                     /\ FirstLettersOfOthers(p) \cap FirstLettersOfOthers(q) # {})
            /\ (n1 # n2 /\ (Len(p) = 1 \/ Len(q) = 1) /\ SameLastToken(p, q)) => match_result
            /\ (name1 = <<>> \/ name2 = <<>>) => ~match_result

\* two different names of two tokens each that match by last name and initial
C2_Witness ==
    /\ match_pc = "done"
    /\ match_result
    /\ normalize_name(name1) # normalize_name(name2)
    /\ Len(Split(normalize_name(name1))) = 2
    /\ Len(Split(normalize_name(name2))) = 2

(***************************************************************************)
(* The row of a one-paper run, as read and as written.                     *)
(***************************************************************************)
RowIn == csv_in[1]
RowOut == output_csv[1]
RowHandled == is_missing(RowIn.affiliations) /\ RowIn.affiliations # Unparsable
PaddedIn == Pad(RowIn.affiliations, Len(RowIn.authors))

(***************************************************************************)
(* C3: for every paper row handled by the fill loop, the affiliations list *)
(* written back has exactly one slot per author, whatever the lengths of   *)
(* the author list and of the affiliation list read from the CSV.          *)
(***************************************************************************)
C3_OneSlotPerAuthor ==
    (fill_pc = "done" /\ RowHandled /\ changed) =>
        Len(RowOut.affiliations) = Len(RowOut.authors)

(***************************************************************************)
(* C4: a None slot of an author for whom match_author_to_affiliations      *)
(* finds nothing, whose name contains neither "collaboration" nor "team",  *)
(* in a row that does not end the iteration with exactly one distinct      *)
(* non-empty affiliation, is still None in the row written to the output   *)
(* CSV.                                                                    *)
(***************************************************************************)
NameHasWord(author, word) == Contains(Lower(author), word)

FailedLookupSlots ==
    {i \in 1..Len(RowIn.authors) :
        /\ PaddedIn[i] = PyNone
        /\ match_author_to_affiliations(RowIn.authors[i], RowIn.title) = PyNone
        /\ ~NameHasWord(RowIn.authors[i], <<"c","o","l","l","a","b","o","r","a","t","i","o","n">>)
        /\ ~NameHasWord(RowIn.authors[i], <<"t","e","a","m">>)
        /\ Cardinality(Range(Valid(affiliations))) # 1}

SlotFilled(in, out) ==
    \E i \in 1..Len(out.affiliations) :
        /\ Pad(in.affiliations, Len(in.authors))[i] = PyNone
        /\ out.affiliations[i] # PyNone

C5_WrittenOnceRowsKept ==
    /\ csv_writes <= 1
    /\ (csv_writes = 1) <=> (fill_pc \in {"report", "done"})
    /\ csv_writes = 1 =>
         /\ loop_i > Len(missing_indices)
         /\ Len(output_csv) = Len(csv_in)
         /\ \A r \in 1..Len(csv_in) :
               /\ output_csv[r].title = csv_in[r].title
               /\ output_csv[r].authors = csv_in[r].authors
               /\ output_csv[r].affiliations # csv_in[r].affiliations =>
                     SlotFilled(csv_in[r], output_csv[r])
               /\ ~is_missing(csv_in[r].affiliations) => output_csv[r] = csv_in[r]

\* a finished run that rewrote one row and kept a flagged row and a complete row
C5_Witness ==
    /\ fill_pc = "done"
    /\ csv_writes = 1
    /\ \E r \in 1..Len(csv_in) : output_csv[r].affiliations # csv_in[r].affiliations
    /\ \E r \in 1..Len(csv_in) : ~is_missing(csv_in[r].affiliations)

(***************************************************************************)
(* C6: every item the downloader enqueues is dequeued and processed by the *)
(* processor exactly once and in enqueue order, latex_countries is written *)
(* for its index before the processor exits, and the None sentinel is the  *)
(* last item enqueued, so that no work item is left in the queue when the  *)
(* processor stops.                                                        *)
(***************************************************************************)
WorkItemsOf(q) == SelectSeq(q, LAMBDA x : x # Sentinel)
IsPrefix(p, q) == Len(p) <= Len(q) /\ SubSeq(q, 1, Len(p)) = p

C6_QueueHandOver ==
    /\ IsPrefix(processed, WorkItemsOf(enqueued))
    /\ \A i \in 1..Len(enqueued) : enqueued[i] = Sentinel => i = Len(enqueued)
    /\ \A i, j \in 1..Len(enqueued) : enqueued[i] = enqueued[j] => i = j
    /\ \A i \in 1..Len(processed) : ac_df[processed[i].index].latex_countries # PyNone
    /\ pr_pc = "exit" =>
          /\ processed = WorkItemsOf(enqueued)
          /\ work_queue = <<>>
          /\ dl_pc = "exit"

\* the processor has stopped after handling two papers
C6_Witness ==
    /\ pr_pc = "exit"
    /\ Len(processed) >= 2
    /\ work_queue = <<>>

(***************************************************************************)
(* C7: every HTTP request of the downloader is followed by a sleep of      *)
(* ARXIV_RATE_LIMIT seconds before the next request, whatever the outcome  *)
(* of the request, and rows skipped without a request incur no sleep.      *)
(***************************************************************************)
C7_SleepAfterEveryRequest ==
    /\ \A k \in 1..(Len(request_times) - 1) :
          request_times[k + 1] - request_times[k] >= ARXIV_RATE_LIMIT
    /\ dl_pc = "sleep" => now = ARXIV_RATE_LIMIT * (Len(request_times) - 1)
    /\ dl_pc # "sleep" => now = ARXIV_RATE_LIMIT * Len(request_times)

\* a second request after a failed first one and a skipped row
C7_Witness ==
    /\ Len(request_times) >= 2
    /\ Len(enqueued) = 1
    /\ enqueued[1].index = NumPapers
    /\ \E r \in 1..NumPapers : ~ac_df[r].has_id

(***************************************************************************)
(* C10: process_lines_with_buffer returns, in order of appearance and with *)
(* duplicates kept, the canonical name of every match on the lines it      *)
(* scans; it scans from the first line and stops exactly when BUFFER_LINES *)
(* consecutive lines without a match have followed a line with a match;    *)
(* lines without a match before the first match are not counted and never  *)
(* cause a stop.                                                           *)
(***************************************************************************)
CanonicalName(match) ==
    LET k == CHOOSE j \in 1..Len(search_map) : Lower(search_map[j].key) = Lower(match)
    IN  search_map[k].value

BufferExhausted == last_match_line > 0 /\ lines_scanned - last_match_line >= BUFFER_LINES

C10_BufferedScan ==
    /\ found_matches = [k \in 1..Len(scanned_matches) |-> CanonicalName(scanned_matches[k])]
    /\ stopped_by_buffer =>
          /\ scan_pc = "return"
          /\ last_match_line > 0
          /\ lines_scanned - last_match_line = BUFFER_LINES
    /\ scan_pc = "scan" => ~BufferExhausted
    /\ last_match_line = 0 => ~stopped_by_buffer

\* more than BUFFER_LINES lines without a match came first, then two lines with
\* matches, one name twice, and the scan stopped BUFFER_LINES lines later
C10_Witness ==
    /\ stopped_by_buffer
    /\ last_match_line > BUFFER_LINES + 2
    /\ Len(found_matches) = 4
    /\ found_matches[1] = found_matches[2]

(***************************************************************************)
(* C8: each worker appends to the output file once and increments one      *)
(* counter once, both while holding write_lock, so the blocks of different *)
(* workers never interleave; the summary is written only after all workers *)
(* have finished, and success_count + fail_count is then the number of     *)
(* papers submitted.                                                       *)
(***************************************************************************)
Finished(i) == worker_pc[i] \in {"done", "raised"}
ChunksOf(i) == SelectSeq(outfile, LAMBDA c : c.owner = i)

C8_LockedAppendAndCount ==
    ex_main_pc # "idle" =>
        /\ \A i \in Workers : worker_pc[i] \in LockedPcs => write_lock = i
        /\ \A i \in Workers : Finished(i) =>
              /\ counted[i] = 1
              /\ ChunksOf(i) = <<Chunk(i, "head"), Chunk(i, "body")>>
        /\ \A k \in 1..Len(outfile) : outfile[k].part = "head" =>
              IF k = Len(outfile) THEN worker_pc[outfile[k].owner] = "write_body"
              ELSE outfile[k + 1] = Chunk(outfile[k].owner, "body")
        /\ success_count + fail_count = Cardinality({i \in Workers : counted[i] > 0})
        /\ summary_total # -1 =>
              /\ \A i \in Workers : worker_pc[i] = "done"
              /\ summary_total = NumToProcess
              /\ outfile[Len(outfile)] = Chunk(0, "summary")

\* the summary is written after one success and one failure
C8_Witness ==
    /\ ex_main_pc = "done"
    /\ success_count >= 1
    /\ fail_count >= 1
    /\ summary_total = success_count + fail_count

(***************************************************************************)
(* C9: on a 429 answer get_author_affiliation_ads sleeps RETRY_WAIT        *)
(* seconds and retries once: at most one retry per author lookup, so a     *)
(* lookup returns after at most two requests.                              *)
(***************************************************************************)
C9_AtMostTwoRequests == ads_requests <= 2


(***************************************************************************)
(* C11: find_affiliation_section returns None exactly when no line holds a *)
(* keyword; otherwise, with m the first line that holds one, it returns    *)
(* lines m - 50 to m + 50, cut at the first and the last line of the file. *)
(***************************************************************************)
\* the lines numbered first to last, both included
SliceInclusive(first, last) ==
    IF last < first THEN <<>>
    ELSE [k \in 1..(last - first + 1) |-> first + k - 1]

LinesAround(m, n) == SliceInclusive(Max(0, m - ContextLines), Min(n - 1, m + ContextLines))

C11_FiftyBeforeAndAfter ==
    fa_pc = "done" =>
        /\ fa_none <=> first_match_line < 0
        /\ ~fa_none => extracted_section = LinesAround(first_match_line, fa_len)

(***************************************************************************)
(* C12: in the download loop of download_arxiv.py no iteration raises,     *)
(* whatever the request did, and each is followed by the rate-limit wait:  *)
(* two requests of one run are never less than 3 seconds apart.            *)
(***************************************************************************)
C12_FailedRequestKeepsLoopAndSpacing ==
    /\ da_pc # "raised"
    /\ \A k \in 1..(Len(da_request_times) - 1) :
            da_request_times[k + 1] - da_request_times[k] >= RateLimitSecs

(***************************************************************************)
(* C13: when download_arxiv.py is started again, an id is skipped only if  *)
(* the file of exactly that id was completely downloaded.                  *)
(***************************************************************************)
C13_SkippedOnlyIfComplete ==
    \A skip \in da_skipped :
        skip.run > 1 => \E file \in output_dir : file.id = skip.id /\ file.complete

(***************************************************************************)
(* C14: ads_request sends the same request again after every 429 answer,   *)
(* returns the parsed JSON on the first answer that is a success, returns  *)
(* None on any other HTTP error or request exception, and returns once the *)
(* server answers something other than 429.                                *)
(***************************************************************************)
AnswersBeforeLast == {ar_log[k].answer : k \in 1..(Len(ar_log) - 1)}

C14_Safety ==
    /\ \A k \in 1..Len(ar_log) : ar_log[k].params = params
    /\ ar_waits \in {Len(ar_log) - 1, Len(ar_log)}
    /\ AnswersBeforeLast \subseteq {"429"}
    /\ ar_pc = "returned" =>
        /\ ar_log # <<>>
        /\ ar_log[Len(ar_log)].answer # "429"
        /\ ar_waits = Len(ar_log) - 1
        /\ ar_return = "json" <=> ar_log[Len(ar_log)].answer = "ok"
        /\ ar_return = "None" <=> ar_log[Len(ar_log)].answer # "ok"
    /\ ar_pc # "returned" =>
        /\ ar_return = "pending"
        /\ \A k \in 1..Len(ar_log) : ar_log[k].answer = "429"

C14_RetriesOn429AndReturns == []C14_Safety /\ <>(ar_pc = "returned")

C14_Witness ==
    /\ ar_pc = "returned"
    /\ Len(ar_log) >= 3
    /\ ar_return = "json"

(***************************************************************************)
(* C15: harvard_ads.main appends exactly one result row for every paper    *)
(* whose title was not in the output file, each in one save (a save in the *)
(* loop holds 20 or more results, the last one what is left), and neither  *)
(* queries nor appends a paper whose title was already there.              *)
(***************************************************************************)
OldTitles == {ha_output[k].title : k \in {j \in 1..Len(ha_output) : ha_output[j].flush = 0}}
RowsOf(p) == {k \in 1..Len(ha_output) : ha_output[k].paper = p}
QueriesOf(p) == {k \in 1..Len(ha_queried) : ha_queried[k] = p}
RowsOfFlush(f) == {k \in 1..Len(ha_output) : ha_output[k].flush = f}

QuotaOr429(e) == e.code = 429 \/ e.word = "quota"
ServerSide(e) == e.code \in {500, 502, 503, 504}

C16_RetryBudgetAndDelays ==
    /\ qg_calls <= MAX_RETRIES + 1
    /\ qg_calls = MAX_RETRIES + 1 => qg_return # "pending"
    /\ qg_pc = "sleep" =>
        /\ QuotaOr429(qg_error) \/ ServerSide(qg_error)
        /\ QuotaOr429(qg_error) /\ ~ServerSide(qg_error) => qg_delay = 60
        /\ ServerSide(qg_error) /\ ~QuotaOr429(qg_error) =>
                qg_delay = Min(30 * (2 ^ retry_count), 300)

(***************************************************************************)
(* C17: process_batch_results writes rows only for papers of batch_data,   *)
(* at most one row per original_index, so that the count it returns is at  *)
(* most len(batch_data).                                                   *)
(***************************************************************************)
C17_AtMostOneRowPerPaper ==
    /\ saved_count <= Len(batch_data)
    /\ pb_return <= Len(batch_data)
    /\ \A k \in 1..Len(pb_csv) :
        \E b \in 1..Len(batch_data) : batch_data[b].original_index = pb_csv[k].original_index
    /\ \A j, k \in 1..Len(pb_csv) :
        pb_csv[j].original_index = pb_csv[k].original_index => j = k

(***************************************************************************)
(* C18: extract_balanced_content returns the text strictly between the     *)
(* first "{" after the first occurrence of the token (an optional [...]    *)
(* argument right after the token is passed over) and the "}" that         *)
(* balances it, and None when the token is absent or that brace is never   *)
(* closed.                                                                 *)
(***************************************************************************)
Count(s, ch) == Cardinality({k \in 1..Len(s) : s[k] = ch})
BalancedBraces(s) ==
    /\ Count(s, "{") = Count(s, "}")
    /\ \A n \in 0..Len(s) : Count(SubSeq(s, 1, n), "{") >= Count(SubSeq(s, 1, n), "}")

AllWhitespace(s) == \A k \in 1..Len(s) : s[k] = " "
\* whitespace, then "[", characters other than "]", and "]"
IsArgument(s) ==
    \E a \in 0..Len(s) :
        /\ AllWhitespace(SubSeq(s, 1, a))
        /\ Len(s) >= a + 2
        /\ s[a + 1] = "[" /\ s[Len(s)] = "]"
        /\ \A k \in (a + 2)..(Len(s) - 1) : s[k] # "]"
\* what may stand between the token and its brace
IsGap(s) ==
    \E a \in 0..Len(s) :
        /\ AllWhitespace(SubSeq(s, a + 1, Len(s)))
        /\ a = 0 \/ IsArgument(SubSeq(s, 1, a))

Least(S) == CHOOSE x \in S : \A y \in S : x <= y
\* the "}" that balances the "{" at position o, as a set of at most one position
ClosingOf(text, o) ==
    {c \in (o + 1)..Len(text) : text[c] = "}" /\ BalancedBraces(SubSeq(text, o + 1, c - 1))}
ContentFrom(text, o) ==
    IF ClosingOf(text, o) = {} THEN ReturnNone
    ELSE ReturnText(SubSeq(text, o + 1, Least(ClosingOf(text, o)) - 1))

TokenPositions(text) == {p \in 1..Len(text) : text[p] = "T"}
\* the end of the [...] argument right after position p, p when there is none
ArgumentEnd(text, p) ==
    LET ends == {b \in (p + 1)..Len(text) : IsArgument(SubSeq(text, p + 1, b))}
    IN IF ends = {} THEN p ELSE Least(ends)
BracesAfter(text, p) == {o \in (ArgumentEnd(text, p) + 1)..Len(text) : text[o] = "{"}

ClaimedContent(text) ==
    IF TokenPositions(text) = {} THEN ReturnNone
    ELSE LET p == Least(TokenPositions(text))
         IN IF BracesAfter(text, p) = {} THEN ReturnNone
            ELSE ContentFrom(text, Least(BracesAfter(text, p)))

C18_ContentAfterFirstToken ==
    ebc_pc = "done" => ebc_result = ClaimedContent(ebc_text)

\* the occurrences of the token that are followed by their brace: only
\* whitespace and at most one [...] argument stand in between
TokensWithBrace(text) ==
    {p \in TokenPositions(text) :
        \E o \in (p + 1)..Len(text) : text[o] = "{" /\ IsGap(SubSeq(text, p + 1, o - 1))}
BraceOf(text, p) ==
    CHOOSE o \in (p + 1)..Len(text) : text[o] = "{" /\ IsGap(SubSeq(text, p + 1, o - 1))

\* amended: the token is the first occurrence that is followed by its brace
C18_ContentAfterFirstTokenWithBrace ==
    ebc_pc = "done" =>
        /\ ebc_result =
            IF TokensWithBrace(ebc_text) = {} THEN ReturnNone
            ELSE ContentFrom(ebc_text, BraceOf(ebc_text, Least(TokensWithBrace(ebc_text))))
        /\ ~ebc_result.none => BalancedBraces(ebc_result.content)

C18_Witness ==
    /\ ebc_pc = "done"
    /\ ~ebc_result.none
    /\ Count(ebc_result.content, "{") > 0

(***************************************************************************)
(* C19: in the data-labelling UI current_idx stays within 0 .. len(df) - 1 *)
(* after any Previous, Next, Done, Jump-to and ?index= navigation, and the *)
(* lookup df.iloc[current_idx] never raises.                               *)
(***************************************************************************)
C19_IndexInRange ==
    /\ current_idx >= 0
    /\ current_idx <= ui_len - 1
    /\ ui_pc # "raised"

(***************************************************************************)
(* C20: in the affiliation editor of app.py, Submit on the unedited        *)
(* pre-filled text stores the list that was loaded: same length, same      *)
(* entries, None where None was.                                           *)
(***************************************************************************)
C20_SubmitUneditedKeepsList ==
    app_pc = "saved" => new_affs_list = app_affiliations
====
